---------------------------- MODULE Spec2Model ----------------------------
(***************************************************************************)
(* BiblioHelper: the heuristic reference pipeline of analyze_references.py *)
(* (segment, parse, locate citations, classify usage, categorize theme,    *)
(* emit a markdown table) and the table normalizer of                      *)
(* extract_references.py (parse_markdown_table, consolidate_themes).       *)
(*                                                                         *)
(* A Python str is a sequence of one-character strings.  Offsets are       *)
(* Python offsets (0-based, end exclusive); "not found" is -1.             *)
(***************************************************************************)
EXTENDS Integers, Sequences, FiniteSets, TLC

VARIABLES
    pc,              \* position in the script
    text,            \* the document text
    references,      \* extract_references_from_text(text)
    idx,             \* number of references already handled by the loop of __main__
    ref_text,        \* the entry being handled
    ref_parsed,      \* parse_reference(ref_text)
    citations,       \* find_reference_citations(text, ref_parsed)
    usage_contexts,  \* the labels given to the examined windows, in order
    usage_desc,      \* the usage description
    importance,      \* the importance score
    theme,           \* categorize_theme(ref_parsed, usage_desc)
    results,         \* the rows assembled by __main__
    emitted,         \* the markdown text printed by __main__
    headers,         \* the table normalizer's headers
    data_rows,       \* the table normalizer's rows
    in_rows,         \* the rows handed to the table normalizer
    max_themes,      \* consolidate_themes' max_themes
    pdf_path,        \* process_pdf's document
    response,        \* the agent's standard output
    table_content,   \* extract_table_from_response(response)
    reportlab,       \* REPORTLAB_AVAILABLE
    files,           \* the files written, by path
    argv,            \* the command-line arguments of the script, sys.argv[1:]
    tasks,           \* the documents submitted to the pool, in order
    input_paths,     \* merge_references' input_paths: a str or a list of str
    output_name,     \* merge_references' output_name
    read_result,     \* the tuple read_markdown_files returned
    merge_result,    \* the value merge_references returned
    pages_per_chunk, \* split_pdf.py main's pages_per_chunk
    output_dir,      \* split_pdf.py main's output_dir
    created_files,   \* the blocks split_pdf wrote
    raised,          \* the exception that left main, if any
    exit_status      \* the exit status of the script, once it has exited

vars == <<pc, text, references, idx, ref_text, ref_parsed, citations,
          usage_contexts, usage_desc, importance, theme, results, emitted,
          headers, data_rows, in_rows, max_themes, pdf_path, response,
          table_content, reportlab, files, argv, tasks, input_paths,
          output_name, read_result, merge_result, pages_per_chunk, output_dir,
          created_files, raised, exit_status>>

refVars == <<ref_text, ref_parsed, citations, usage_contexts, usage_desc,
             importance, theme>>
tableVars == <<headers, data_rows, in_rows, max_themes>>
processVars == <<pdf_path, response, table_content, reportlab, files>>
batchVars == <<argv, tasks>>
mergeVars == <<input_paths, output_name, read_result, merge_result>>
splitVars == <<pages_per_chunk, output_dir, created_files>>
exitVars == <<raised, exit_status>>
toolVars == <<mergeVars, splitVars, exitVars>>

---------------------------------------------------------------------------
(* Characters and the str methods the code uses.                           *)

Min(a, b) == IF a < b THEN a ELSE b
Max(a, b) == IF a > b THEN a ELSE b
MinOf(set) == CHOOSE x \in set : \A y \in set : x <= y
MaxOf(set) == CHOOSE x \in set : \A y \in set : x >= y

Whitespace == {" ", "\t", "\n"}
Digits == {"0", "1", "2", "3", "4", "5", "6", "7", "8", "9"}
UpperSeq == <<"A","B","C","D","E","F","G","H","I","J","K","L","M","N","O","P","Q","R","S","T","U","V","W","X","Y","Z","É","È">>
LowerSeq == <<"a","b","c","d","e","f","g","h","i","j","k","l","m","n","o","p","q","r","s","t","u","v","w","x","y","z","é","è">>
AsciiUpper == {UpperSeq[i] : i \in 1..26}
AsciiLower == {LowerSeq[i] : i \in 1..26}
LowerTable ==
    [c \in {UpperSeq[i] : i \in DOMAIN UpperSeq} |->
        LowerSeq[CHOOSE i \in DOMAIN UpperSeq : UpperSeq[i] = c]]
LowerChar(c) == IF c \in DOMAIN LowerTable THEN LowerTable[c] ELSE c

\* str.lower()
Lower(s) == SubSeq([i \in 1..Len(s) |-> LowerChar(s[i])], 1, Len(s))

\* s[k] for a Python offset k
At(s, k) == s[k + 1]

\* s[a:b] for 0 <= a, b
Slice(s, a, b) == SubSeq(s, a + 1, Min(b, Len(s)))

\* s.startswith(p, k)
MatchesAt(s, k, p) ==
    /\ k + Len(p) <= Len(s)
    /\ \A j \in 1..Len(p) : s[k + j] = p[j]

\* p in s
Contains(s, p) == \E k \in 0..(Len(s) - Len(p)) : MatchesAt(s, k, p)

\* s.find(p)
Find(s, p) ==
    LET hits == {k \in 0..(Len(s) - Len(p)) : MatchesAt(s, k, p)}
    IN  IF hits = {} THEN -1 ELSE MinOf(hits)

\* s.strip()
Strip(s) ==
    LET solid == {i \in 1..Len(s) : s[i] \notin Whitespace}
    IN  IF solid = {} THEN <<>> ELSE SubSeq(s, MinOf(solid), MaxOf(solid))

\* s.split(c) for a one-character separator c
Split(s, c) ==
    LET IsSep(i) == s[i] = c
        seps == SelectSeq([i \in 1..Len(s) |-> i], IsSep)
        cuts == <<0>> \o seps \o <<Len(s) + 1>>
    IN  [k \in 1..(Len(seps) + 1) |-> SubSeq(s, cuts[k] + 1, cuts[k + 1] - 1)]

\* sep.join(parts)
RECURSIVE Join(_, _)
Join(parts, sep) ==
    IF parts = <<>> THEN <<>>
    ELSE IF Len(parts) = 1 THEN parts[1]
    ELSE parts[1] \o sep \o Join(Tail(parts), sep)

\* ''.join(parts)
RECURSIVE Concat(_)
Concat(parts) == IF parts = <<>> THEN <<>> ELSE parts[1] \o Concat(Tail(parts))

\* re.sub(r'\s+', ' ', s)
CollapseWhitespace(s) ==
    LET marked == [i \in 1..Len(s) |->
                     <<s[i], s[i] \notin Whitespace \/ i = 1 \/ s[i - 1] \notin Whitespace>>]
        Kept(m) == m[2]
        kept == SelectSeq(marked, Kept)
    IN  [i \in 1..Len(kept) |-> IF kept[i][1] \in Whitespace THEN " " ELSE kept[i][1]]

---------------------------------------------------------------------------
(* parse_reference                                                         *)

NoMatch == <<-1, -1>>

\* re: \(([0-9]{4}[a-z]?)\) matched at offset k; the end offset, or -1
YearMatchEnd_NoLetter(s, k) ==
    IF /\ k + 6 <= Len(s)
       /\ At(s, k) = "("
       /\ \A j \in 1..4 : At(s, k + j) \in Digits
       /\ At(s, k + 5) = ")"
    THEN k + 6 ELSE -1
YearMatchEnd(s, k) ==
    IF /\ k + 6 <= Len(s)
       /\ At(s, k) = "("
       /\ \A j \in 1..4 : At(s, k + j) \in Digits
    THEN IF At(s, k + 5) = ")" THEN k + 6
         ELSE IF /\ k + 7 <= Len(s)
                 /\ At(s, k + 5) \in AsciiLower
                 /\ At(s, k + 6) = ")"
              THEN k + 7 ELSE -1
    ELSE -1

\* re.search(r'\(([0-9]{4}[a-z]?)\)', s): <<start, end>> of the first match
YearSearch(s) ==
    LET hits == {k \in 0..(Len(s) - 1) : YearMatchEnd(s, k) # -1}
    IN  IF hits = {} THEN NoMatch
        ELSE <<MinOf(hits), YearMatchEnd(s, MinOf(hits))>>

DoiStopChars == Whitespace \cup {","}

\* re: https?://doi\.org/([^\s,]+) matched at offset k; the end offset, or -1
DoiMatchEnd(s, k) ==
    LET afterHttp == IF MatchesAt(s, k, <<"h","t","t","p","s">>) THEN k + 5 ELSE k + 4
        body == afterHttp + 11
        stops == {e \in body..(Len(s) - 1) : At(s, e) \in DoiStopChars}
    IN  IF /\ MatchesAt(s, k, <<"h","t","t","p">>)
           /\ MatchesAt(s, afterHttp, <<":","/","/","d","o","i",".","o","r","g","/">>)
           /\ body < Len(s)
           /\ At(s, body) \notin DoiStopChars
        THEN IF stops = {} THEN Len(s) ELSE MinOf(stops)
        ELSE -1

\* re.search(r'https?://doi\.org/([^\s,]+)', s)
DoiSearch(s) ==
    LET hits == {k \in 0..(Len(s) - 1) : DoiMatchEnd(s, k) # -1}
    IN  IF hits = {} THEN NoMatch
        ELSE <<MinOf(hits), DoiMatchEnd(s, MinOf(hits))>>

MaxAuthors == 3
AuthorsFallbackLen == 50
TitleMaxLen == 100

\* the authors, given the year match
RefAuthors_NoEtAl(s, ym) ==
    IF ym # NoMatch
    THEN LET authors_part == CollapseWhitespace(Strip(Slice(s, 0, ym[1])))
             parts == Split(authors_part, ",")
             authors_list == [i \in 1..Min(MaxAuthors, Len(parts)) |-> Strip(parts[i])]
         IN  IF Contains(authors_part, <<","," ">>)
             THEN IF Contains(Lower(authors_part), <<"e","t"," ","a","l">>)
                  THEN Strip(parts[1]) \o <<" ","e","t"," ","a","l",".">>
                  ELSE Join(authors_list, <<","," ">>)
             ELSE authors_part
    ELSE IF Contains(s, <<",">>) THEN Split(s, ",")[1]
         ELSE Slice(s, 0, AuthorsFallbackLen)
RefAuthors(s, ym) ==
    IF ym # NoMatch
    THEN LET authors_part == CollapseWhitespace(Strip(Slice(s, 0, ym[1])))
             parts == Split(authors_part, ",")
             first_author == Strip(parts[1])
             authors_list == [i \in 1..Min(MaxAuthors, Len(parts)) |-> Strip(parts[i])]
         IN  IF Contains(authors_part, <<","," ">>)
             THEN IF Contains(Lower(authors_part), <<"e","t"," ","a","l">>)
                  THEN first_author \o <<" ","e","t"," ","a","l",".">>
                  ELSE Join(authors_list, <<","," ">>)
                       \o (IF Len(parts) > MaxAuthors THEN <<" ","e","t"," ","a","l",".">> ELSE <<>>)
             ELSE authors_part
    ELSE IF Contains(s, <<",">>) THEN Split(s, ",")[1]
         ELSE Slice(s, 0, AuthorsFallbackLen)

\* the title, given the year match
RefTitle_Untruncated(s, ym) ==
    IF ym = NoMatch THEN <<>>
    ELSE LET after_year == Strip(Slice(s, ym[2], Len(s)))
             upto == Split(after_year, ",")[1]
         IN  IF upto = <<>> THEN <<>> ELSE CollapseWhitespace(Strip(upto))
RefTitle(s, ym) ==
    IF ym = NoMatch THEN <<>>
    ELSE LET after_year == Strip(Slice(s, ym[2], Len(s)))
             upto == Split(after_year, ",")[1]
             title == CollapseWhitespace(Strip(upto))
         IN  IF upto = <<>> THEN <<>>
             ELSE IF Len(title) > TitleMaxLen
                  THEN Slice(title, 0, TitleMaxLen) \o <<".",".",".">>
                  ELSE title

\* ref_display
RefDisplay_NoParens(authors, year, title) ==
    authors \o <<" ">> \o year
        \o (IF title # <<>> THEN <<" ","-"," ">> \o title ELSE <<>>)
RefDisplay(authors, year, title) ==
    authors \o <<" ","(">> \o year \o <<")">>
        \o (IF title # <<>> THEN <<" ","-"," ">> \o title ELSE <<>>)

parse_reference(s) ==
    LET ym == YearSearch(s)
        dm == DoiSearch(s)
        year == IF ym # NoMatch THEN Slice(s, ym[1] + 1, ym[2] - 1) ELSE <<>>
        authors == RefAuthors(s, ym)
        title == RefTitle(s, ym)
    IN  [authors  |-> authors,
         year     |-> year,
         title    |-> title,
         doi      |-> IF dm # NoMatch THEN Slice(s, dm[1], dm[2]) ELSE <<>>,
         full_ref |-> s,
         display  |-> RefDisplay(authors, year, title)]

NoRef == [authors |-> <<>>, year |-> <<>>, title |-> <<>>, doi |-> <<>>,
          full_ref |-> <<>>, display |-> <<>>]

---------------------------------------------------------------------------
(* find_reference_citations                                                *)

ContextRadius == 200

\* startswith under re.IGNORECASE
MatchesAtCI(s, k, p) ==
    /\ k + Len(p) <= Len(s)
    /\ \A j \in 1..Len(p) : LowerChar(s[k + j]) = LowerChar(p[j])

\* the end of the run of whitespace that starts at offset k (\s* from k)
WhitespaceRunEnd(s, k) ==
    LET stops == {e \in k..(Len(s) - 1) : At(s, e) \notin Whitespace}
    IN  IF stops = {} THEN Max(k, Len(s)) ELSE MinOf(stops)

\* \({re.escape(year)}\)
YearPattern(year) == <<"(">> \o year \o <<")">>

\* pattern1 with ' et al' in the authors:
\* {first_author}\s+et\s+al\.?\s*\({year}\) at offset k; the end offset, or -1
EtAlMatchEnd(s, k, first_author, year) ==
    LET a == k + Len(first_author)
        w1 == WhitespaceRunEnd(s, a)
        b == w1 + 2
        w2 == WhitespaceRunEnd(s, b)
        c == w2 + 2
        d == IF MatchesAt(s, c, <<".">>) THEN c + 1 ELSE c
        e == WhitespaceRunEnd(s, d)
    IN  IF /\ MatchesAtCI(s, k, first_author)
           /\ w1 > a
           /\ MatchesAtCI(s, w1, <<"e","t">>)
           /\ w2 > b
           /\ MatchesAtCI(s, w2, <<"a","l">>)
           /\ MatchesAtCI(s, e, YearPattern(year))
        THEN e + Len(year) + 2
        ELSE -1

\* pattern1 otherwise: {first_author}[^,]*\({year}\) at offset k (greedy: the
\* last '(year)' that no comma separates from the author); the end offset, or -1
AuthorYearMatchEnd(s, k, first_author, year) ==
    LET a == k + Len(first_author)
        commas == {q \in a..(Len(s) - 1) : At(s, q) = ","}
        limit == IF commas = {} THEN Len(s) ELSE MinOf(commas)
        hits == {q \in a..(limit - 1) : MatchesAtCI(s, q, YearPattern(year))}
    IN  IF MatchesAtCI(s, k, first_author) /\ hits # {}
        THEN MaxOf(hits) + Len(year) + 2
        ELSE -1

\* pattern2: \({year}\) at offset k; the end offset, or -1
BareYearMatchEnd(s, k, year) ==
    IF MatchesAtCI(s, k, YearPattern(year)) THEN k + Len(year) + 2 ELSE -1

\* re.finditer: the non-overlapping matches from left to right, as <<start, end>>,
\* given the end offset of the match at every offset (ends[k + 1], -1 for none)
RECURSIVE PickMatches(_, _, _)
PickMatches(ends, starts, from) ==
    IF starts = <<>> THEN <<>>
    ELSE IF starts[1] < from THEN PickMatches(ends, Tail(starts), from)
    ELSE <<<<starts[1], ends[starts[1] + 1]>>>>
             \o PickMatches(ends, Tail(starts), ends[starts[1] + 1])

FindIter(s, MatchEnd(_)) ==
    LET ends == [i \in 1..Len(s) |-> MatchEnd(i - 1)]
        Hit(i) == ends[i + 1] # -1
        starts == SelectSeq([i \in 1..Len(s) |-> i - 1], Hit)
    IN  PickMatches(ends, starts, 0)

\* the citation of one match
Citation(s, m) ==
    [position |-> m[1],
     context  |-> Slice(s, Max(0, m[1] - ContextRadius), Min(Len(s), m[2] + ContextRadius))]

\* the matches of pattern1, then those of pattern2 that no match of pattern1 holds
CitationMatches_Merged(s, authors, year) ==
    LET first_author == Strip(Split(authors, ",")[1])
        P1EtAl(k) == EtAlMatchEnd(s, k, first_author, year)
        P1Plain(k) == AuthorYearMatchEnd(s, k, first_author, year)
        P2(k) == BareYearMatchEnd(s, k, year)
        first == IF Contains(Lower(authors), <<" ","e","t"," ","a","l">>)
                 THEN FindIter(s, P1EtAl) ELSE FindIter(s, P1Plain)
        Alone(m) == \A i \in 1..Len(first) : ~(first[i][1] <= m[1] /\ m[2] <= first[i][2])
    IN  first \o SelectSeq(FindIter(s, P2), Alone)

\* the matches of pattern1, then those of pattern2
CitationMatches(s, authors, year) ==
    LET first_author == Strip(Split(authors, ",")[1])
        P1EtAl(k) == EtAlMatchEnd(s, k, first_author, year)
        P1Plain(k) == AuthorYearMatchEnd(s, k, first_author, year)
        P2(k) == BareYearMatchEnd(s, k, year)
    IN  (IF Contains(Lower(authors), <<" ","e","t"," ","a","l">>)
         THEN FindIter(s, P1EtAl) ELSE FindIter(s, P1Plain))
        \o FindIter(s, P2)

find_reference_citations_NoYearGuard(s, ref) ==
    LET ms == CitationMatches(s, ref.authors, ref.year)
    IN  [i \in 1..Len(ms) |-> Citation(s, ms[i])]
find_reference_citations(s, ref) ==
    IF ref.year = <<>> THEN <<>>
    ELSE LET ms == CitationMatches(s, ref.authors, ref.year)
         IN  [i \in 1..Len(ms) |-> Citation(s, ms[i])]

---------------------------------------------------------------------------
(* analyze_reference_usage                                                 *)

MaxContexts == 3

LabelMethod == <<"j","u","s","t","i","f","i","c","a","t","i","o","n"," ","d","e"," ","m","é","t","h","o","d","e">>
LabelFramework == <<"c","a","d","r","e"," ","t","h","é","o","r","i","q","u","e">>
LabelResults == <<"c","o","m","p","a","r","a","i","s","o","n"," ","d","e"," ","r","é","s","u","l","t","a","t","s">>
LabelHypothesis == <<"a","p","p","u","i"," ","d","'","h","y","p","o","t","h","è","s","e">>
LabelExample == <<"e","x","e","m","p","l","e"," ","o","u"," ","a","p","p","l","i","c","a","t","i","o","n">>
LabelGeneral == <<"r","é","f","é","r","e","n","c","e"," ","g","é","n","é","r","a","l","e">>
DefaultUsage ==
    <<"R","é","f","é","r","e","n","c","e"," ","c","i","t","é","e"," ","d","a","n","s"," ","l","a"," ","b","i","b","l","i","o","g","r","a","p","h","i","e"," ","m","a","i","s"," ","u","s","a","g","e"," ","n","o","n"," ","d","é","t","e","c","t","é"," ","d","a","n","s"," ","l","e"," ","t","e","x","t","e">>

\* the if/elif chain, in its order
UsageCategories_FrameworkFirst ==
    << [label |-> LabelFramework,
        words |-> {<<"c","a","d","r","e">>, <<"f","r","a","m","e","w","o","r","k">>, <<"t","h","é","o","r","i","e">>, <<"t","h","e","o","r","y">>, <<"m","o","d","è","l","e">>, <<"m","o","d","e","l">>}],
       [label |-> LabelMethod,
        words |-> {<<"m","é","t","h","o","d","e">>, <<"m","e","t","h","o","d">>, <<"t","e","c","h","n","i","q","u","e">>, <<"a","p","p","r","o","c","h","e">>, <<"a","l","g","o","r","i","t","h","m","e">>}],
       [label |-> LabelResults,
        words |-> {<<"r","é","s","u","l","t","a","t">>, <<"r","e","s","u","l","t">>, <<"c","o","m","p","a","r","a","i","s","o","n">>, <<"c","o","m","p","a","r","i","s","o","n">>, <<"d","o","n","n","é","e">>, <<"d","a","t","a">>}],
       [label |-> LabelHypothesis,
        words |-> {<<"h","y","p","o","t","h","è","s","e">>, <<"h","y","p","o","t","h","e","s","i","s">>, <<"a","p","p","u","i","e">>, <<"s","u","p","p","o","r","t">>}],
       [label |-> LabelExample,
        words |-> {<<"e","x","e","m","p","l","e">>, <<"e","x","a","m","p","l","e">>, <<"c","a","s">>, <<"c","a","s","e">>, <<"a","p","p","l","i","c","a","t","i","o","n">>}] >>
UsageCategories ==
    << [label |-> LabelMethod,
        words |-> {<<"m","é","t","h","o","d","e">>, <<"m","e","t","h","o","d">>, <<"t","e","c","h","n","i","q","u","e">>, <<"a","p","p","r","o","c","h","e">>, <<"a","l","g","o","r","i","t","h","m","e">>}],
       [label |-> LabelFramework,
        words |-> {<<"c","a","d","r","e">>, <<"f","r","a","m","e","w","o","r","k">>, <<"t","h","é","o","r","i","e">>, <<"t","h","e","o","r","y">>, <<"m","o","d","è","l","e">>, <<"m","o","d","e","l">>}],
       [label |-> LabelResults,
        words |-> {<<"r","é","s","u","l","t","a","t">>, <<"r","e","s","u","l","t">>, <<"c","o","m","p","a","r","a","i","s","o","n">>, <<"c","o","m","p","a","r","i","s","o","n">>, <<"d","o","n","n","é","e">>, <<"d","a","t","a">>}],
       [label |-> LabelHypothesis,
        words |-> {<<"h","y","p","o","t","h","è","s","e">>, <<"h","y","p","o","t","h","e","s","i","s">>, <<"a","p","p","u","i","e">>, <<"s","u","p","p","o","r","t">>}],
       [label |-> LabelExample,
        words |-> {<<"e","x","e","m","p","l","e">>, <<"e","x","a","m","p","l","e">>, <<"c","a","s">>, <<"c","a","s","e">>, <<"a","p","p","l","i","c","a","t","i","o","n">>}] >>

\* any(word in s for word in words)
HasAny(words, s) == \E w \in words : Contains(s, w)

\* the label of one context window
ClassifyContext(context) ==
    LET lowered == Lower(context)
        hits == {i \in DOMAIN UsageCategories : HasAny(UsageCategories[i].words, lowered)}
    IN  IF hits = {} THEN LabelGeneral ELSE UsageCategories[MinOf(hits)].label

\* citations[:3]
ExaminedCitations_All(cits) == cits
ExaminedCitations(cits) == SubSeq(cits, 1, Min(MaxContexts, Len(cits)))

\* usage_contexts
UsageContexts(cits) ==
    LET examined == ExaminedCitations(cits)
    IN  [i \in 1..Len(examined) |-> ClassifyContext(examined[i].context)]

ScoreNoCitation == 30
ScoreFew == 50
ScoreSeveral == 70
ScoreMany == 85
ManyCitations == 5
SeveralCitations == 2
UsageBonus == 15
ScoreCap == 100

BaseImportance_Shifted(n) ==
    IF n >= ManyCitations THEN ScoreMany
    ELSE IF n >= SeveralCitations THEN ScoreSeveral
    ELSE ScoreFew
BaseImportance(n) ==
    IF n > ManyCitations THEN ScoreMany
    ELSE IF n > SeveralCitations THEN ScoreSeveral
    ELSE ScoreFew

\* the importance of a reference with n > 0 citations and the given labels
Importance(n, labels) ==
    IF \E i \in DOMAIN labels : labels[i] \in {LabelMethod, LabelFramework}
    THEN Min(ScoreCap, BaseImportance(n) + UsageBonus)
    ELSE BaseImportance(n)

\* the orders in which iterating set(usage_contexts) can yield its elements
SetOrders(labels) ==
    LET distinct == {labels[i] : i \in DOMAIN labels}
        n == Cardinality(distinct)
    IN  {q \in [1..n -> distinct] : \A i, j \in 1..n : i # j => q[i] # q[j]}

---------------------------------------------------------------------------
(* categorize_theme                                                        *)

ThemeGnss == <<"M","é","t","h","o","d","e","s"," ","G","N","S","S","-","A","c","o","u","s","t","i","q","u","e">>
ThemeGeodesy == <<"G","é","o","d","é","s","i","e"," ","d","e","s"," ","f","o","n","d","s"," ","m","a","r","i","n","s">>
ThemeProcessing == <<"O","p","t","i","m","i","s","a","t","i","o","n"," ","e","t"," ","t","r","a","i","t","e","m","e","n","t"," ","d","e"," ","d","o","n","n","é","e","s">>
ThemeModelling == <<"M","o","d","é","l","i","s","a","t","i","o","n"," ","e","t"," ","s","i","m","u","l","a","t","i","o","n">>
ThemeInstruments == <<"I","n","s","t","r","u","m","e","n","t","s"," ","e","t"," ","t","e","c","h","n","i","q","u","e","s"," ","d","e"," ","m","e","s","u","r","e">>
ThemeApplications == <<"A","p","p","l","i","c","a","t","i","o","n","s"," ","e","t"," ","é","t","u","d","e","s"," ","d","e"," ","c","a","s">>

\* the if/elif chain, in its order
ThemeCategories ==
    << [label |-> ThemeGnss,
        words |-> {<<"g","n","s","s">>, <<"g","p","s">>, <<"a","c","o","u","s","t","i","c">>, <<"a","c","o","u","s","t","i","q","u","e">>, <<"p","o","s","i","t","i","o","n","i","n","g">>,
                   <<"p","o","s","i","t","i","o","n","n","e","m","e","n","t">>, <<"s","e","a","f","l","o","o","r">>, <<"f","o","n","d"," ","d","e"," ","m","e","r">>}],
       [label |-> ThemeGeodesy,
        words |-> {<<"g","e","o","d","e","s","y">>, <<"g","é","o","d","é","s","i","e">>, <<"d","e","f","o","r","m","a","t","i","o","n">>, <<"d","é","f","o","r","m","a","t","i","o","n">>,
                   <<"s","t","r","a","i","n">>, <<"f","a","u","l","t">>, <<"f","a","i","l","l","e">>}],
       [label |-> ThemeProcessing,
        words |-> {<<"o","p","t","i","m","i","z","a","t","i","o","n">>, <<"o","p","t","i","m","i","s","a","t","i","o","n">>, <<"p","r","o","c","e","s","s","i","n","g">>, <<"t","r","a","i","t","e","m","e","n","t">>,
                   <<"a","l","g","o","r","i","t","h","m">>, <<"a","l","g","o","r","i","t","h","m","e">>, <<"f","i","l","t","e","r">>, <<"f","i","l","t","r","e">>}],
       [label |-> ThemeModelling,
        words |-> {<<"m","o","d","e","l">>, <<"m","o","d","è","l","e">>, <<"s","i","m","u","l","a","t","i","o","n">>, <<"n","u","m","e","r","i","c","a","l">>, <<"n","u","m","é","r","i","q","u","e">>,
                   <<"t","h","e","o","r","e","t","i","c","a","l">>, <<"t","h","é","o","r","i","q","u","e">>}],
       [label |-> ThemeInstruments,
        words |-> {<<"i","n","s","t","r","u","m","e","n","t">>, <<"s","e","n","s","o","r">>, <<"c","a","p","t","e","u","r">>, <<"m","e","a","s","u","r","e","m","e","n","t">>, <<"m","e","s","u","r","e">>,
                   <<"p","r","e","s","s","u","r","e">>, <<"p","r","e","s","s","i","o","n">>, <<"t","i","l","t","m","e","t","e","r">>}] >>

\* the label of the first category of the chain with a word in s
FirstTheme_ModellingFirst(s) ==
    LET order == <<1, 4, 2, 3, 5>>
        hits == {i \in DOMAIN order : HasAny(ThemeCategories[order[i]].words, s)}
    IN  IF hits = {} THEN ThemeApplications ELSE ThemeCategories[order[MinOf(hits)]].label
FirstTheme(s) ==
    LET hits == {i \in DOMAIN ThemeCategories : HasAny(ThemeCategories[i].words, s)}
    IN  IF hits = {} THEN ThemeApplications ELSE ThemeCategories[MinOf(hits)].label

categorize_theme(ref, usage) == FirstTheme(Lower(ref.full_ref \o <<" ">> \o usage))

---------------------------------------------------------------------------
(* extract_references_from_text                                            *)

BibMarker == <<"B","I","B","L","I","O","G","R","A","P","H","I","E">>
NextSectionMarker == <<"T","i","t","r","e"," ",":">>
MinEntryLen == 20

\* the span of the bibliography: from the marker to the next section marker;
\* <<FALSE, _>> when the text has no marker
BibSection_WholeText(s) ==
    LET bib_start == Max(0, Find(s, BibMarker))
        from_marker == Slice(s, bib_start, Len(s))
        bib_end == Find(from_marker, NextSectionMarker)
    IN  IF bib_end # -1 THEN <<TRUE, Slice(from_marker, 0, bib_end)>>
        ELSE <<TRUE, from_marker>>
BibSection(s) ==
    LET bib_start == Find(s, BibMarker)
        from_marker == Slice(s, bib_start, Len(s))
        bib_end == Find(from_marker, NextSectionMarker)
    IN  IF bib_start = -1 THEN <<FALSE, <<>>>>
        ELSE IF bib_end # -1 THEN <<TRUE, Slice(from_marker, 0, bib_end)>>
        ELSE <<TRUE, from_marker>>

\* [a-zA-Z\s,\.&]
AuthorChars == AsciiUpper \cup AsciiLower \cup Whitespace \cup {",", ".", "&"}

\* the offset of the first character of the line outside [a-zA-Z\s,\.&], from
\* offset 1 on; either pattern needs '(' and four digits there
AuthorRunEnd(line) ==
    LET stops == {q \in 1..(Len(line) - 1) : At(line, q) \notin AuthorChars}
    IN  IF stops = {} THEN Len(line) ELSE MinOf(stops)

OpensYear(line, q) ==
    /\ q + 5 <= Len(line)
    /\ At(line, q) = "("
    /\ \A j \in 1..4 : At(line, q + j) \in Digits

\* re.match(r'^[A-Z][a-zA-Z\s,\.&]+,\s*\([0-9]{4}', line): the run [..]+ ends
\* at offset m (exclusive), a comma follows, then whitespace up to '('
StartsEntryComma(line) ==
    LET q == AuthorRunEnd(line)
    IN  /\ Len(line) > 0
        /\ At(line, 0) \in AsciiUpper
        /\ OpensYear(line, q)
        /\ \E m \in 2..(q - 1) :
              /\ At(line, m) = ","
              /\ \A j \in (m + 1)..(q - 1) : At(line, j) \in Whitespace

\* re.match(r'^[A-Z][a-zA-Z\s,\.&]+\s+\([0-9]{4}', line): the run [..]+ ends
\* at offset m (exclusive), then at least one whitespace up to '('
StartsEntrySpace(line) ==
    LET q == AuthorRunEnd(line)
    IN  /\ Len(line) > 0
        /\ At(line, 0) \in AsciiUpper
        /\ OpensYear(line, q)
        /\ \E m \in 2..(q - 1) : \A j \in m..(q - 1) : At(line, j) \in Whitespace

IsEntryStart_CommaOnly(line) == StartsEntryComma(line)
IsEntryStart(line) == StartsEntryComma(line) \/ StartsEntrySpace(line)

\* close the open entry: keep it when its joined text is long enough
FlushEntry_KeepShort(refs, current_ref) ==
    LET joined == Join(current_ref, <<" ">>)
    IN  IF current_ref # <<>> /\ Len(joined) >= MinEntryLen
        THEN Append(refs, joined) ELSE refs
FlushEntry_Glued(refs, current_ref) ==
    LET joined == Concat(current_ref)
    IN  IF current_ref # <<>> /\ Len(joined) > MinEntryLen
        THEN Append(refs, joined) ELSE refs
FlushEntry(refs, current_ref) ==
    LET joined == Join(current_ref, <<" ">>)
    IN  IF current_ref # <<>> /\ Len(joined) > MinEntryLen
        THEN Append(refs, joined) ELSE refs

\* the loop over the lines, from line i on, and the final flush
RECURSIVE SegmentLines(_, _, _, _)
SegmentLines(lines, i, refs, current_ref) ==
    IF i > Len(lines) THEN FlushEntry(refs, current_ref)
    ELSE LET line == Strip(lines[i])
         IN  IF line = <<>>
             THEN SegmentLines(lines, i + 1, FlushEntry(refs, current_ref), <<>>)
             ELSE IF IsEntryStart(line)
             THEN SegmentLines(lines, i + 1, FlushEntry(refs, current_ref), <<line>>)
             ELSE IF current_ref # <<>>
             THEN SegmentLines(lines, i + 1, refs, Append(current_ref, line))
             ELSE SegmentLines(lines, i + 1, refs, current_ref)

extract_references_from_text(s) ==
    LET section == BibSection(s)
    IN  IF ~section[1] THEN <<>>
        ELSE SegmentLines(Split(section[2], "\n"), 1, <<>>, <<>>)

---------------------------------------------------------------------------
(* The table printed by __main__.                                          *)

DigitSeq == <<"0","1","2","3","4","5","6","7","8","9">>

\* str(n) for n >= 0
RECURSIVE IntToStr(_)
IntToStr(n) ==
    IF n < 10 THEN <<DigitSeq[n + 1]>>
    ELSE IntToStr(n \div 10) \o <<DigitSeq[(n % 10) + 1]>>

\* s.replace(old, new)
RECURSIVE ReplaceAll(_, _, _)
ReplaceAll(s, old, new) ==
    LET k == Find(s, old)
    IN  IF k = -1 THEN s
        ELSE Slice(s, 0, k) \o new \o ReplaceAll(Slice(s, k + Len(old), Len(s)), old, new)

HeaderLine ==
    <<"|"," ","R","é","f","é","r","e","n","c","e"," ","|"," ","T","h","è","m","e"," ","|"," ","A","r","g","u","m","e","n","t","s"," ","é","t","a","y","é","s"," ","|"," ","N","o","t","e"," ","d","'","i","m","p","o","r","t","a","n","c","e"," ","|"," ","A","n","n","é","e"," ","|"," ","L","i","e","n"," ","w","e","b"," ","|">>
SeparatorLine ==
    <<"|","-","-","-","-","-","-","-","-","-","-","-","|","-","-","-","-","-","-","-","|","-","-","-","-","-","-","-","-","-","-","-","-","-","-","-","-","-","-","|","-","-","-","-","-","-","-","-","-","-","-","-","-","-","-","-","-","-","-","|","-","-","-","-","-","-","-","|","-","-","-","-","-","-","-","-","-","-","|">>

\* the cells of a result, in the order of the columns
ResultCells(result) ==
    << result.reference, result.theme, result.usage, IntToStr(result.importance),
       result.year, result.link >>

\* the line printed for one result
RowLine(result) ==
    <<"|"," ">> \o ReplaceAll(result.reference, <<"|">>, <<"\\","|">>)
      \o <<" ","|"," ">> \o result.theme
      \o <<" ","|"," ">> \o result.usage
      \o <<" ","|"," ">> \o IntToStr(result.importance)
      \o <<" ","|"," ">> \o result.year
      \o <<" ","|"," ">> \o result.link \o <<" ","|">>

\* everything printed on standard output, each line with its newline
EmittedTable(rows) ==
    HeaderLine \o <<"\n">> \o SeparatorLine \o <<"\n">>
      \o Concat([i \in 1..Len(rows) |-> RowLine(rows[i]) \o <<"\n">>])

---------------------------------------------------------------------------
(* parse_markdown_table                                                    *)

SeparatorChars == Whitespace \cup {"|", "-", ":"}

IsSeparatorLine_NoColon(line) ==
    /\ line # <<>>
    /\ \A i \in 1..Len(line) : line[i] \in SeparatorChars \ {":"}
\* re.match(r'^[\|\s\-:]+$', line)
IsSeparatorLine(line) ==
    /\ line # <<>>
    /\ \A i \in 1..Len(line) : line[i] \in SeparatorChars

\* the corrections applied to a cell
FixCell(c) ==
    ReplaceAll(
      ReplaceAll(
        ReplaceAll(
          ReplaceAll(c, <<"R","Ã","©","f","Ã","©","r","e","n","c","e">>, <<"R","é","f","é","r","e","n","c","e">>),
          <<"A","r","g","u","m","e","n","t","s"," ","Ã","©","t","a","y","Ã","©","s">>, <<"A","r","g","u","m","e","n","t","s"," ","é","t","a","y","é","s">>),
        <<"T","h","Ã","¨","m","e">>, <<"T","h","è","m","e">>),
      <<"A","n","n","Ã","©","e">>, <<"A","n","n","é","e">>)

\* the corrections applied to a header
FixHeader(h) ==
    ReplaceAll(
      ReplaceAll(
        ReplaceAll(
          ReplaceAll(
            ReplaceAll(h, <<"R","Ã","©","f","Ã","©","r","e","n","c","e">>, <<"R","é","f","é","r","e","n","c","e">>),
            <<"A","r","g","u","m","e","n","t","s"," ","Ã","©","t","a","y","Ã","©","s">>, <<"A","r","g","u","m","e","n","t","s"," ","é","t","a","y","é","s">>),
          <<"N","o","t","e"," ","d","'","i","m","p","o","r","t","a","n","c","e">>, <<"N","o","t","e"," ","d","'","i","m","p","o","r","t","a","n","c","e">>),
        <<"T","h","Ã","¨","m","e">>, <<"T","h","è","m","e">>),
      <<"A","n","n","Ã","©","e">>, <<"A","n","n","é","e">>)

\* [cell.strip() for cell in line.split('|')[1:-1]]
LineCells(line) ==
    LET parts == Split(line, "|")
    IN  [i \in 1..Max(0, Len(parts) - 2) |-> Strip(parts[i + 1])]

NoTable == [headers |-> <<>>, rows |-> <<>>]

parse_markdown_table(content) ==
    LET raw == Split(content, "\n")
        NotBlank(l) == l # <<>>
        lines == SelectSeq([i \in 1..Len(raw) |-> Strip(raw[i])], NotBlank)
        NotSeparator(l) == ~IsSeparatorLine(l)
        data_lines == SelectSeq(lines, NotSeparator)
        head == LineCells(data_lines[1])
        Fits(l) == Len(LineCells(l)) = Len(head)
        kept == SelectSeq(Tail(data_lines), Fits)
    IN  IF content = <<>> \/ Len(lines) < 2 \/ data_lines = <<>> THEN NoTable
        ELSE [headers |-> [i \in 1..Len(head) |-> FixHeader(head[i])],
              rows    |-> [r \in 1..Len(kept) |->
                             LET cells == LineCells(kept[r])
                             IN  [i \in 1..Len(cells) |-> FixCell(cells[i])]]]

---------------------------------------------------------------------------
(* consolidate_themes                                                      *)

ThemeHeader == <<"T","h","è","m","e">>
OtherTheme == <<"A","u","t","r","e">>
DefaultMaxThemes == 6

\* headers.index(name), counted from 1; 0 when absent
HeaderIndex(hs, name) ==
    LET hits == {i \in 1..Len(hs) : hs[i] = name}
    IN  IF hits = {} THEN 0 ELSE MinOf(hits)

\* the rows that have a theme cell
ThemedRows(rows, ti) == {r \in 1..Len(rows) : ti <= Len(rows[r])}

\* the keys of theme_counts
ThemesOf(rows, ti) == {Strip(rows[r][ti]) : r \in ThemedRows(rows, ti)}

\* theme_counts[t]
ThemeCount(rows, ti, t) ==
    Cardinality({r \in ThemedRows(rows, ti) : Strip(rows[r][ti]) = t})

\* the position of the first row of theme t (the insertion order of theme_counts)
FirstRowOf(rows, ti, t) ==
    MinOf({r \in ThemedRows(rows, ti) : Strip(rows[r][ti]) = t})

\* sorted(theme_counts.items(), key=count, reverse=True): a stable sort, so equal
\* counts keep the insertion order; Before(a, b) is "a comes before b"
ThemeBefore_CountOnly(rows, ti, a, b) ==
    ThemeCount(rows, ti, a) > ThemeCount(rows, ti, b)

ThemeBefore(rows, ti, a, b) ==
    \/ ThemeCount(rows, ti, a) > ThemeCount(rows, ti, b)
    \/ /\ ThemeCount(rows, ti, a) = ThemeCount(rows, ti, b)
       /\ FirstRowOf(rows, ti, a) < FirstRowOf(rows, ti, b)

\* main_themes: the first max sorted themes
MainThemes(rows, ti, max) ==
    LET all == ThemesOf(rows, ti)
    IN  {t \in all : Cardinality({u \in all : ThemeBefore(rows, ti, u, t)}) < max}

consolidate_themes(hs, rows, max) ==
    LET ti == HeaderIndex(hs, ThemeHeader)
        main == MainThemes(rows, ti, max)
    IN  IF ti = 0 \/ Cardinality(ThemesOf(rows, ti)) <= max THEN rows
        ELSE [r \in 1..Len(rows) |->
                IF ti <= Len(rows[r])
                THEN [rows[r] EXCEPT ![ti] =
                        IF Strip(rows[r][ti]) \in main THEN Strip(rows[r][ti])
                        ELSE OtherTheme]
                ELSE rows[r]]

---------------------------------------------------------------------------
(* extract_year and sort_references_by_theme_and_year                      *)

\* the characters of the texts, in increasing code point order
CodePointOrder ==
    << "\t", "\n", " ", "!", "\"", "#", "$", "%", "&", "'", "(", ")", "*",
       "+", ",", "-", ".", "/", "0", "1", "2", "3", "4", "5", "6", "7", "8",
       "9", ":", ";", "<", "=", ">", "?", "@", "A", "B", "C", "D", "E", "F",
       "G", "H", "I", "J", "K", "L", "M", "N", "O", "P", "Q", "R", "S", "T",
       "U", "V", "W", "X", "Y", "Z", "[", "\\", "]", "^", "_", "a", "b",
       "c", "d", "e", "f", "g", "h", "i", "j", "k", "l", "m", "n", "o", "p",
       "q", "r", "s", "t", "u", "v", "w", "x", "y", "z", "{", "|", "}", "~",
       "¨", "©", "Ã", "È", "É", "è", "é" >>

\* ord(c), up to an increasing renumbering
Ord(c) == CHOOSE i \in DOMAIN CodePointOrder : CodePointOrder[i] = c

\* a < b for two str
StrLess(a, b) ==
    \E k \in 1..(Len(b)) :
        /\ \A j \in 1..(k - 1) : j <= Len(a) /\ a[j] = b[j]
        /\ k - 1 <= Len(a)
        /\ k > Len(a) \/ Ord(a[k]) < Ord(b[k])

\* \w: letters, digits and the underscore
WordChars ==
    {CodePointOrder[i] : i \in {j \in DOMAIN CodePointOrder :
        \/ CodePointOrder[j] \in Digits \cup AsciiUpper \cup AsciiLower \cup {"_"}
        \/ CodePointOrder[j] \in {UpperSeq[u] : u \in DOMAIN UpperSeq}
        \/ CodePointOrder[j] \in {LowerSeq[u] : u \in DOMAIN LowerSeq}
        \/ CodePointOrder[j] = "Ã"}}

DigitValue(c) == (CHOOSE i \in DOMAIN DigitSeq : DigitSeq[i] = c) - 1

\* the value of a sequence of digits
RECURSIVE DigitsValue(_)
DigitsValue(ds) ==
    IF ds = <<>> THEN 0
    ELSE 10 * DigitsValue(SubSeq(ds, 1, Len(ds) - 1)) + DigitValue(ds[Len(ds)])

\* re: \b(19|20)\d{2}\b matched at offset k
YearWordAt(s, k) ==
    /\ k + 4 <= Len(s)
    /\ \/ At(s, k) = "1" /\ At(s, k + 1) = "9"
       \/ At(s, k) = "2" /\ At(s, k + 1) = "0"
    /\ At(s, k + 2) \in Digits
    /\ At(s, k + 3) \in Digits
    /\ k = 0 \/ At(s, k - 1) \notin WordChars
    /\ k + 4 = Len(s) \/ At(s, k + 4) \notin WordChars

MinYear == 1900
MaxYear == 2100

\* int(s) for an optional sign followed by digits; None (0) otherwise
NoYear == 0
IntOrNone(s) ==
    LET signed == s # <<>> /\ s[1] \in {"+", "-"}
        ds == IF signed THEN Tail(s) ELSE s
    IN  IF ds # <<>> /\ (\A i \in 1..Len(ds) : ds[i] \in Digits)
        THEN (IF signed /\ s[1] = "-" THEN 0 - DigitsValue(ds) ELSE DigitsValue(ds))
        ELSE NoYear

\* extract_year(row, year_idx), with year_idx counted from 1 and 0 for None; the
\* result None is NoYear, which get_year turns into 0 as well
extract_year(row, year_idx) ==
    IF year_idx = 0 \/ year_idx > Len(row) THEN NoYear
    ELSE LET year_str == Strip(row[year_idx])
             hits == {k \in 0..(Len(year_str) - 4) : YearWordAt(year_str, k)}
             n == IntOrNone(year_str)
         IN  IF year_str = <<>> THEN NoYear
             ELSE IF hits # {}
                  THEN DigitsValue(Slice(year_str, MinOf(hits), MinOf(hits) + 4))
             ELSE IF MinYear <= n /\ n <= MaxYear THEN n
             ELSE NoYear

YearHeader == <<"A","n","n","é","e">>

\* get_theme(row)
SortTheme(hs, row) ==
    LET ti == HeaderIndex(hs, ThemeHeader)
    IN  IF ti # 0 /\ ti <= Len(row) THEN Strip(row[ti]) ELSE <<>>

\* get_year(row)
SortYear(hs, row) == extract_year(row, HeaderIndex(hs, YearHeader))

KeyLess_ThemeOnly(hs, a, b) == StrLess(SortTheme(hs, a), SortTheme(hs, b))

\* (get_theme(a), get_year(a)) < (get_theme(b), get_year(b))
KeyLess(hs, a, b) ==
    \/ StrLess(SortTheme(hs, a), SortTheme(hs, b))
    \/ /\ SortTheme(hs, a) = SortTheme(hs, b)
       /\ SortYear(hs, a) < SortYear(hs, b)

\* sorted(data_rows, key=...): a stable sort
sort_references_by_theme_and_year_Stripped(hs, rows) ==
    LET Rank(r) == Cardinality({q \in 1..Len(rows) :
                       \/ KeyLess(hs, rows[q], rows[r])
                       \/ ~KeyLess(hs, rows[r], rows[q]) /\ q < r})
    IN  [k \in 1..Len(rows) |->
            LET row == rows[CHOOSE r \in 1..Len(rows) : Rank(r) = k - 1]
            IN  [i \in 1..Len(row) |-> Strip(row[i])]]
sort_references_by_theme_and_year(hs, rows) ==
    LET Rank(r) == Cardinality({q \in 1..Len(rows) :
                       \/ KeyLess(hs, rows[q], rows[r])
                       \/ ~KeyLess(hs, rows[r], rows[q]) /\ q < r})
    IN  [k \in 1..Len(rows) |-> rows[CHOOSE r \in 1..Len(rows) : Rank(r) = k - 1]]

---------------------------------------------------------------------------
(* extract_table_from_response                                             *)

\* the offset of the first character at or after k that is not in chars; Len(s) if none
RunEnd(s, k, chars) ==
    LET stops == {i \in k..(Len(s) - 1) : At(s, i) \notin chars}
    IN  IF stops = {} THEN Len(s) ELSE MinOf(stops)

\* the offset of the first newline at or after k; Len(s) if none
LineEnd(s, k) ==
    LET newlines == {i \in k..(Len(s) - 1) : At(s, i) = "\n"}
    IN  IF newlines = {} THEN Len(s) ELSE MinOf(newlines)

\* re: \s*\n matched at offset k: the ends it can reach
NewlineEnds(s, k) ==
    {i + 1 : i \in {j \in k..(RunEnd(s, k, Whitespace) - 1) : At(s, j) = "\n"}}

\* re: \|[^\n]+\|\s*\n matched at offset p: the ends it can reach.  [^\n]+ stays
\* on the line, so the closing '|' is the last one of the line, followed by
\* white space only
RowPieceEnds(s, p) ==
    IF p >= Len(s) \/ At(s, p) # "|" THEN {}
    ELSE LET eol == LineEnd(s, p)
             bars == {q \in (p + 2)..(eol - 1) : At(s, q) = "|"}
         IN  IF bars = {} THEN {} ELSE NewlineEnds(s, MaxOf(bars) + 1)

\* [-\s:|]
TableRuleChars == Whitespace \cup {"-", ":", "|"}

\* re: \|[-\s:|]+\|\s*\n matched at offset p: the ends it can reach
RulePieceEnds(s, p) ==
    IF p >= Len(s) \/ At(s, p) # "|" THEN {}
    ELSE LET run_end == RunEnd(s, p + 1, TableRuleChars)
             bars == {q \in (p + 2)..(run_end - 1) : At(s, q) = "|"}
         IN  UNION {NewlineEnds(s, q + 1) : q \in bars}

\* re: (?:\|[^\n]+\|\s*\n)* matched greedily at offset p: its end
RECURSIVE RowsEnd(_, _)
RowsEnd(s, p) ==
    LET ends == RowPieceEnds(s, p)
    IN  IF ends = {} THEN p ELSE RowsEnd(s, MaxOf(ends))

\* re: table_pattern matched at offset p: its end, or -1.  Every quantifier is
\* greedy, and a longer choice of a piece ends later, so the match takes the
\* latest end of each piece from which the rest still matches
TableMatchEnd(s, p) ==
    LET heads == {h \in RowPieceEnds(s, p) :
                    \E r \in RulePieceEnds(s, h) : RowPieceEnds(s, r) # {}}
        rules == {r \in RulePieceEnds(s, MaxOf(heads)) : RowPieceEnds(s, r) # {}}
    IN  IF heads = {} THEN -1 ELSE RowsEnd(s, MaxOf(rules))

\* re.findall(table_pattern, s): the matches from offset k on, left to right,
\* without overlap
RECURSIVE FindAllTables(_, _)
FindAllTables(s, k) ==
    LET starts == {p \in k..(Len(s) - 1) : At(s, p) = "|" /\ TableMatchEnd(s, p) # -1}
    IN  IF starts = {} THEN <<>>
        ELSE LET p == MinOf(starts)
                 e == TableMatchEnd(s, p)
             IN  <<Slice(s, p, e)>> \o FindAllTables(s, e)

\* max(matches, key=len): the first of the longest
LongestMatch(matches) ==
    matches[MinOf({i \in DOMAIN matches :
                      \A j \in DOMAIN matches : Len(matches[j]) <= Len(matches[i])})]

\* the corrections applied to the table found by the pattern
FixTable(t) ==
    ReplaceAll(
      ReplaceAll(
        ReplaceAll(
          ReplaceAll(t, <<"R","Ã","©","f","Ã","©","r","e","n","c","e">>, <<"R","é","f","é","r","e","n","c","e">>),
          <<"A","r","g","u","m","e","n","t","s"," ","Ã","©","t","a","y","Ã","©","s">>, <<"A","r","g","u","m","e","n","t","s"," ","é","t","a","y","é","s">>),
        <<"T","h","Ã","¨","m","e">>, <<"T","h","è","m","e">>),
      <<"A","n","n","Ã","©","e">>, <<"A","n","n","é","e">>)

\* the lines kept by the fallback loop, from line i on
RECURSIVE TableLines(_, _, _)
TableLines(lines, i, in_table) ==
    IF i > Len(lines) THEN <<>>
    ELSE LET stripped == Strip(lines[i])
             bar == stripped # <<>> /\ stripped[1] = "|"
         IN  IF bar /\ ~Contains(stripped, <<"-","-","-">>)
             THEN <<lines[i]>> \o TableLines(lines, i + 1, TRUE)
             ELSE IF in_table /\ ~bar THEN <<>>
             ELSE TableLines(lines, i + 1, in_table)

\* None
None == <<"None">>

extract_table_from_response(response_text) ==
    LET matches == FindAllTables(response_text, 0)
        table_lines == TableLines(Split(response_text, "\n"), 1, FALSE)
    IN  IF matches # <<>> THEN Strip(FixTable(LongestMatch(matches)))
        ELSE IF Len(table_lines) >= 2
        THEN Strip(ReplaceAll(
                     ReplaceAll(Join(table_lines, <<"\n">>),
                                <<"R","Ã","©","f","Ã","©","r","e","n","c","e">>, <<"R","é","f","é","r","e","n","c","e">>),
                     <<"A","r","g","u","m","e","n","t","s"," ","Ã","©","t","a","y","Ã","©","s">>, <<"A","r","g","u","m","e","n","t","s"," ","é","t","a","y","é","s">>))
        ELSE None

---------------------------------------------------------------------------
(* pathlib and the files written by save_table_to_file                     *)

\* the offsets of the '/' of a path, and of the '.' of a name
SlashesOf(p) == {i \in 1..Len(p) : p[i] = "/"}
\* Path.name
PathName(p) == IF SlashesOf(p) = {} THEN p ELSE SubSeq(p, MaxOf(SlashesOf(p)) + 1, Len(p))
\* Path.parent; the empty path stands for '.'
PathParent(p) == IF SlashesOf(p) = {} THEN <<>> ELSE SubSeq(p, 1, MaxOf(SlashesOf(p)) - 1)
\* Path.suffix: from the last '.' of the name, unless it opens or ends the name
PathSuffix(p) ==
    LET name == PathName(p)
        dots == {i \in 2..(Len(name) - 1) : name[i] = "."}
    IN  IF dots = {} \/ name[Len(name)] = "." THEN <<>>
        ELSE SubSeq(name, MaxOf(dots), Len(name))
\* Path.stem
PathStem(p) == SubSeq(PathName(p), 1, Len(PathName(p)) - Len(PathSuffix(p)))
\* parent / name
JoinPath(parent, name) == IF parent = <<>> THEN name ELSE parent \o <<"/">> \o name
\* Path.with_suffix(suffix)
WithSuffix(p, suffix) == JoinPath(PathParent(p), PathStem(p) \o suffix)
\* pdf_path.suffix.lower() == '.pdf'
IsPdf(p) == Lower(PathSuffix(p)) = <<".","p","d","f">>
\* output_path = pdf_path.parent / f"{pdf_path.stem}_references.pdf"
OutputPathOf(p) == JoinPath(PathParent(p), PathStem(p) \o <<"_","r","e","f","e","r","e","n","c","e","s",".","p","d","f">>)

\* Path.write_text: the files after writing content at path
WriteFile(fs, path, content) ==
    [q \in DOMAIN fs \cup {path} |-> IF q = path THEN content ELSE fs[q]]

\* the table a PDF or HTML file renders: its headers and its rows, in order
Rendered(hs, rows) == [headers |-> hs, rows |-> rows]

\* if not headers or not data_rows
Unparsable_NoHeaders(t) == t.headers = <<>>
Unparsable(t) == t.headers = <<>> \/ t.rows = <<>>

\* the sort and the consolidation before a table is rendered
SortAndConsolidate(hs, rows) ==
    consolidate_themes(hs, sort_references_by_theme_and_year(hs, rows), DefaultMaxThemes)

---------------------------------------------------------------------------
(* main: glob expansion, validation and the pool of worker threads         *)

\* fnmatch of a name against a pattern of literal characters, '*' and '?'
RECURSIVE FnMatch(_, _)
FnMatch(pat, name) ==
    IF pat = <<>> THEN name = <<>>
    ELSE IF Head(pat) = "*"
         THEN \E k \in 0..Len(name) : FnMatch(Tail(pat), SubSeq(name, k + 1, Len(name)))
         ELSE /\ name # <<>>
              /\ Head(pat) = "?" \/ Head(pat) = Head(name)
              /\ FnMatch(Tail(pat), Tail(name))

\* if '*' in arg or '?' in arg or '[' in arg
IsGlob(arg) == \E i \in 1..Len(arg) : arg[i] \in {"*", "?", "["}

\* the files of the working directory
Disk == { <<"a",".","p","d","f">>, <<"a",".","P","D","F">>, <<"b",".","p","d","f">>, <<"n","o","t","e","s",".","t","x","t">> }

\* glob.glob(arg): the names that match; a leading '.' is matched only by a '.'
GlobMatches(arg) ==
    {f \in Disk : FnMatch(arg, f) /\ (Head(f) = "." => Head(arg) = ".")}

\* the orders in which glob.glob may list a set of names
Orderings(set) ==
    {s \in [1..Cardinality(set) -> set] : \A i, j \in DOMAIN s : i # j => s[i] # s[j]}

\* expand_glob_patterns(args): the lists it may return
RECURSIVE Expansions(_)
Expansions(args) ==
    IF args = <<>> THEN {<<>>}
    ELSE LET first == IF IsGlob(Head(args))
                      THEN Orderings(GlobMatches(Head(args)))
                      ELSE {<<Head(args)>>}
         IN  {f \o r : f \in first, r \in Expansions(Tail(args))}

\* pdf_path.exists() and pdf_path.suffix.lower() == '.pdf'
IsValidPdf(p) == p \in Disk /\ IsPdf(p)
\* valid_pdfs
ValidPdfs(pdf_files) == SelectSeq(pdf_files, IsValidPdf)

\* max_workers = min(len(valid_pdfs), 4)
PoolSize == 4
MaxWorkers_Idle(n) == 0
MaxWorkers(n) == Min(n, PoolSize)

\* a submitted future: its document, its state, the result it holds, the paths
\* its worker wrote, and the status lines main printed for it
NewTask(pdf) ==
    [pdf |-> pdf, st |-> "queued", outcome |-> "none", written |-> {}, printed |-> <<>>]

\* the tasks whose worker thread is busy
ActiveTasks(ts) == {i \in DOMAIN ts : ts[i].st = "running"}
\* the work queue of the executor
QueuedTasks(ts) == {i \in DOMAIN ts : ts[i].st = "queued"}

\* the files process_pdf writes for a response of returncode 0
WrittenPaths(pdf, has_table, with_reportlab) ==
    LET output_path == OutputPathOf(pdf)
        md_path == WithSuffix(output_path, <<".","m","d">>)
        html_path == WithSuffix(output_path, <<".","h","t","m","l">>)
    IN  IF ~has_table THEN {md_path}
        ELSE IF with_reportlab THEN {output_path, md_path, html_path}
        ELSE {md_path, html_path}

\* the same, tabulated for the files of the working directory
OutputFiles ==
    [pdf \in Disk |-> [has_table \in BOOLEAN |-> [with_reportlab \in BOOLEAN |->
        WrittenPaths(pdf, has_table, with_reportlab)]]]
\* the files of the working directory that pass the checks of process_pdf
DiskPdfs == {p \in Disk : IsValidPdf(p)}

\* the line main prints for a completed future
StatusLine(outcome) == IF outcome = "raised" THEN "exception" ELSE outcome

---------------------------------------------------------------------------
(* Bounded inputs.                                                         *)

Range(q) == {q[i] : i \in DOMAIN q}

\* all sequences of at most n elements of the sequence pool
RECURSIVE SeqsUpTo(_, _)
SeqsUpTo(pool, n) ==
    IF n = 0 THEN {<<>>}
    ELSE LET shorter == SeqsUpTo(pool, n - 1)
         IN  shorter \cup {Append(q, pool[i]) : q \in shorter, i \in DOMAIN pool}

MaxEntryChunks == 3
EntryChunks ==
    << <<"S","m","i","t","h",","," ","J","."," ">>,
       <<"D","o","e"," ","e","t"," ","a","l","."," ">>,
       <<"(","2","0","1","9",")">>,
       <<"(","2","0","2","0","b",")">>,
       <<"(","2","0","1","9","9",")">>,
       <<"(","2","0","1","9","A",")">>,
       <<"(","2","0","1",")">>,
       <<" ","A"," "," ","t","i","t","l","e"," ","a","|","b",","," ","J","."," ">>,
       <<"L","e","e",","," ","K",".",","," ","P","a","r","k",","," ","M",".",","," ">>,
       [i \in 1..TitleMaxLen |-> "t"] >>
ParseEntries == {Concat(q) : q \in SeqsUpTo(EntryChunks, MaxEntryChunks)}

\* a stretch of text as long as the context radius, with no comma and no keyword
Filler == [i \in 1..ContextRadius |-> "."]

MaxSentences == 3
Sentences ==
    << <<"S","m","i","t","h"," ","(","2","0","1","9",")"," ","m","e","t","h","o","d",","," ">>,
       Filler \o <<"s","e","e"," ","(","2","0","1","9",")"," ","d","a","t","a"," ">>,
       <<"L","e","e"," ","e","t"," ","a","l","."," ","(","2","0","1","9",")"," ","t","h","e","o","r","y",","," ">>,
       <<"a","s"," ","i","n"," ","S","m","i","t","h"," ","(","2","0","1","9",")"," ","a","n","d"," ","S","M","I","T","H"," ","(","2","0","1","9",")",","," ">>,
       <<" ","(",")"," ","c","a","s","e"," ">> >>
UsageTexts == {Concat(q) : q \in SeqsUpTo(Sentences, MaxSentences)}
UsageEntries ==
    { <<"S","m","i","t","h",","," ","J","."," ","(","2","0","1","9",")","."," ","A"," ","s","t","u","d","y",","," ","J",".">>,
      <<"L","e","e",","," ","K",".",","," ","P","a","r","k",","," ","M",".",","," ","K","i","m"," ","(","2","0","1","9",")"," ","W","a","v","e","s",","," ","J",".">>,
      <<"S","m","i","t","h",","," ","J","."," ","2","0","1","9","."," ","A"," ","s","t","u","d","y">> }

MaxThemeWords == 2
ThemeWords ==
    << <<"G","P","S"," ">>, <<"f","a","u","l","t"," ">>, <<"F","i","l","t","e","r"," ">>, <<"m","o","d","e","l"," ">>, <<"s","e","n","s","o","r"," ">>, <<"s","t","u","d","y"," ">> >>
ThemeEntries ==
    {<<"S","m","i","t","h"," ","(","2","0","1","9",")"," ">> \o Concat(q) : q \in SeqsUpTo(ThemeWords, MaxThemeWords)}
ThemeTexts ==
    { <<>>, <<"S","m","i","t","h"," ","(","2","0","1","9",")"," ","t","h","e","o","r","y">>, <<"S","m","i","t","h"," ","(","2","0","1","9",")"," ","m","e","t","h","o","d">>, <<"S","m","i","t","h"," ","(","2","0","1","9",")">> }

MaxDocLines == 4
DocLines ==
    << BibMarker,
       <<"S","m","i","t","h",","," ","J","."," ","(","2","0","1","9",")","."," ","A"," ","G","r","e","a","t"," ","M","e","t","h","o","d","."," ","J","."," ","G","e","o","p","h","y","s",".",","," ","1","0",","," ","1","-","1","0","."," ","h","t","t","p","s",":","/","/","d","o","i",".","o","r","g","/","1","0",".","1","/","x","y","z">>,
       <<>>,
       <<".",".",".","S","m","i","t","h"," ","(","2","0","1","9",")"," ","p","r","o","p","o","s","e","d"," ","t","h","i","s"," ","m","e","t","h","o","d"," ","f","o","r",".",".",".">>,
       <<"L","e","e",","," ","K","."," ","(","2","0","2","0",")"," ","W","a","v","e","s">> >>

\* the end-to-end scenario: marker line, entry line, blank line, body line
ScenarioEntries ==
    { DocLines[2],
      <<"S","m","i","t","h",","," ","J","."," ","(","2","0","1","9",")","."," ","S","e","a","|","f","l","o","o","r"," ","s","t","u","d","y",","," ","O","c","e","a","n","."," ","h","t","t","p","s",":","/","/","d","o","i",".","o","r","g","/","1","0",".","1","/","x","y","z">>,
      <<"S","m","i","t","h",","," ","J","."," ","(","2","0","1","9",")","."," ","S","e","a"," ","f","l","o","o","r",","," ","O","c","e","a","n","."," ","h","t","t","p","s",":","/","/","d","o","i",".","o","r","g","/","1","0",".","1","/","x","|","y">>,
      <<"S","m","i","t","h",","," ","J","."," ","(","2","0","1","9",")","."," ","T","i","t","r","e"," ",":"," ","W","a","v","e","s",","," ","J","."," ","h","t","t","p","s",":","/","/","d","o","i",".","o","r","g","/","1","0",".","1","/","x","y","z">>,
      <<"S","m","i","t","h",","," ","J","."," ","(","2","0","1","9",")","."," ","W","a","v","e","s",","," ","J","."," ","h","t","t","p",":","/","/","d","o","i",".","o","r","g","/","1","0",".","9","/","a","b","c"," ","h","t","t","p","s",":","/","/","d","o","i",".","o","r","g","/","1","0",".","1","/","x","y","z">> }
ScenarioBodies ==
    { DocLines[4],
      <<"a","s"," ","S","m","i","t","h"," ","(","2","0","1","9",")"," ","p","r","o","p","o","s","e","d",","," ","t","h","i","s"," ","m","e","t","h","o","d"," ","w","o","r","k","s">>,
      <<" "," ","S","m","i","t","h"," ","(","2","0","1","9",")"," ","p","r","o","p","o","s","e","d"," ","t","h","i","s"," ","m","e","t","h","o","d"," ","f","o","r"," ","t","h","e"," ","a","r","r","a","y">> }
ScenarioDocuments ==
    {Join(<<BibMarker, e, <<>>, b>>, <<"\n">>) : e \in ScenarioEntries, b \in ScenarioBodies}

\* entries whose year is not closed by a parenthesis, or is cut by a line end
YearlessEntries ==
    { <<<<"K","i","m",","," ","S","."," ","(","2","0","2","1",","," ","M","a","y",")","."," ","T","i","d","e","s"," ","a","n","d"," ","w","a","v","e","s",","," ","J",".">>>>,
      <<<<"I","t","o",","," ","T","."," ","(","2","0","1","8">>, <<"a",")"," ","S","e","a"," ","l","e","v","e","l"," ","r","i","s","e",","," ","J",".">>>>,
      <<<<"I","t","o",","," ","T","."," ","(","2","0","1","8">>, <<"a",")"," ","S","e","a"," ","l","e","v","e","l"," ","r","i","s","e",","," ","J","."," ","(","2","0","1","8","a",")">>>> }
YearlessDocuments ==
    {Join(<<BibMarker>> \o e \o <<<<>>, b>>, <<"\n">>) :
        e \in YearlessEntries, b \in ScenarioBodies}

Documents ==
    {Join(q, <<"\n">>) : q \in SeqsUpTo(DocLines, MaxDocLines)}
        \cup ScenarioDocuments \cup YearlessDocuments

\* rows as __main__ assembles them
RowPool ==
    << [reference |-> <<"S","m","i","t","h",","," ","J","."," ","(","2","0","1","9",")"," ","-"," ","."," ","A"," ","G","r","e","a","t"," ","M","e","t","h","o","d","."," ","J","."," ","G","e","o","p","h","y","s",".">>,
        theme |-> ThemeApplications, usage |-> LabelMethod, importance |-> 85,
        year |-> <<"2","0","1","9">>, link |-> <<"h","t","t","p","s",":","/","/","d","o","i",".","o","r","g","/","1","0",".","1","/","x","y","z">>],
       [reference |-> <<"S","m","i","t","h",","," ","J","."," ","(","2","0","1","9",")"," ","-"," ","."," ","S","e","a","|","f","l","o","o","r"," ","s","t","u","d","y">>,
        theme |-> ThemeApplications, usage |-> LabelMethod, importance |-> 85,
        year |-> <<"2","0","1","9">>, link |-> <<"h","t","t","p","s",":","/","/","d","o","i",".","o","r","g","/","1","0",".","1","/","x","y","z">>],
       [reference |-> <<"D","o","e"," ","e","t"," ","a","l","."," ","2","0","2","0","."," ","W","a","v","e","s"," ","(",")">>,
        theme |-> ThemeApplications, usage |-> DefaultUsage, importance |-> 30,
        year |-> <<>>, link |-> <<>>],
       [reference |-> <<"L","e","e"," ","(","2","0","2","0","b",")"," ","-"," ","T","h","Ã","¨","m","e"," ","e","t"," ","A","n","n","Ã","©","e">>,
        theme |-> ThemeModelling, usage |-> LabelFramework \o <<","," ">> \o LabelResults,
        importance |-> 100, year |-> <<"2","0","2","0","b">>, link |-> <<>>] >>
MaxResults == 3
ResultTables == SeqsUpTo(RowPool, MaxResults)

\* tables as parse_markdown_table returns them
StdHeaders ==
    << <<"R","é","f","é","r","e","n","c","e">>, <<"T","h","è","m","e">>, <<"A","r","g","u","m","e","n","t","s"," ","é","t","a","y","é","s">>, <<"N","o","t","e"," ","d","'","i","m","p","o","r","t","a","n","c","e">>,
       <<"A","n","n","é","e">>, <<"L","i","e","n"," ","w","e","b">> >>
PlainHeaders ==
    << <<"R","e","f","e","r","e","n","c","e">>, <<"T","h","e","m","e">>, <<"A","r","g","u","m","e","n","t","s">>, <<"N","o","t","e">>, <<"Y","e","a","r">>, <<"L","i","n","k">> >>
ThemedRow(t) == << <<"D","o","e"," ","(","2","0","0","1",")">>, t, LabelGeneral, <<"5","0">>, <<"2","0","0","1">>, <<>> >>
ThemePool == << <<"A">>, <<"B">>, <<"C">>, OtherTheme >>
MaxTableRows == 4
MaxThemesArg == 2
SmallTables ==
    {[i \in 1..Len(q) |-> ThemedRow(q[i])] : q \in SeqsUpTo(ThemePool, MaxTableRows)}
\* nine themes, T1 three times, T2 and T3 twice, T4 to T9 once
NineThemes ==
    [i \in 1..13 |->
        ThemedRow(<<"T", DigitSeq[(IF i <= 9 THEN i ELSE i - 9) + 1]>>)]

\* rows that differ in their theme and year cells
FramePool ==
    << << <<"D","o","e"," ","(","2","0","1","9",")">>, <<"B">>, LabelGeneral, <<"5","0">>, <<"2","0","1","9">>, <<>> >>,
       << <<"L","e","e"," ","(","2","0","0","1",")">>, <<"B">>, LabelMethod, <<"6","5">>, <<" ","2","0","0","1"," ">>, <<>> >>,
       << <<"K","i","m"," ","(","2","0","1","9","a",")">>, <<" ","A"," ">>, LabelGeneral, <<"5","0">>, <<"2","0","1","9","a">>, <<>> >>,
       << <<"R","o","y"," ","(","2","1","0","0",")">>, <<"A","u","t","r","e">>, LabelGeneral, <<"5","0">>, <<"2","1","0","0">>, <<>> >>,
       << <<"P","o","e"," ","(","1","9","9","9",")">>, <<"C">>, LabelGeneral, <<"7","0">>, <<"c","."," ","1","9","9","9">>, <<>> >>,
       << <<"I","t","o">>, <<"a">> >> >>
\* rows whose sort key equals the key of another row, and a row without year
\* in a theme that has a row with a year
SortPool ==
    FramePool \o
    << << <<"R","a","y"," ","(","2","0","1","9",")">>, <<"B"," ">>, LabelMethod, <<"6","5">>, <<"(","2","0","1","9",")">>, <<>> >>,
       << <<"A","s","h">>, <<"B">>, LabelGeneral, <<"5","0">>, <<"s",".","d",".">>, <<>> >> >>
MaxFrameRows == 3
FrameTables == SeqsUpTo(SortPool, MaxFrameRows)

\* the agent's responses: a markdown table with prose around it
TableLine(cells) == <<"|"," ">> \o Join(cells, <<" ","|"," ">>) \o <<" ","|">>
RuleLine(n) == <<"|">> \o Concat([i \in 1..n |-> <<"-","-","-","|">>])
TableText(hs, rows) ==
    Join(<<TableLine(hs), RuleLine(Len(hs))>> \o [r \in 1..Len(rows) |-> TableLine(rows[r])],
         <<"\n">>)
ProseBefore == { <<>>, <<"V","o","i","c","i"," ","l","e"," ","t","a","b","l","e","a","u"," ",":","\n","\n">> }
ProseAfter == { <<>>, <<"\n">>, <<"\n","\n","F","i","n"," ","d","e"," ","l","a"," ","r","é","p","o","n","s","e",".","\n">> }
MaxResponseRows == 2
ResponseTables == SeqsUpTo(FramePool, MaxResponseRows) \cup {NineThemes}
\* responses without a table, or with a table without rule
\* command lines: one path, a repeated path, paths that differ in the case of
\* the suffix, overlapping patterns, nothing valid, more documents than workers
MaxDocs == 5
ArgvPool ==
    { <<>>,
      << <<"a",".","p","d","f">> >>,
      << <<"a",".","p","d","f">>, <<"a",".","p","d","f">> >>,
      << <<"a",".","p","d","f">>, <<"a",".","P","D","F">> >>,
      << <<"?",".","p","d","f">>, <<"a","*">> >>,
      << <<"n","o","t","e","s",".","t","x","t">>, <<"c",".","p","d","f">> >>,
      << <<"z","*">> >>,
      << <<"b",".","p","d","f">>, <<"n","o","t","e","s",".","t","x","t">>, <<"a",".","p","d","f">> >>,
      << <<"a",".","p","d","f">>, <<"b",".","p","d","f">>, <<"a",".","P","D","F">>, <<"b",".","p","d","f">>, <<"a",".","p","d","f">> >> }

\* lines of a table text: a mis-encoded header, separators, rows of two and three
\* cells, a mis-encoded cell, a line without its first pipe
LinePool ==
    << <<"|"," ","R","Ã","©","f","Ã","©","r","e","n","c","e"," ","|"," ","T","h","Ã","¨","m","e"," ","|">>,
       <<"|","-","-","-","|",":","-",":","|">>,
       <<"|"," ","D","o","e"," ","|"," ","A","n","n","Ã","©","e"," ","T","h","Ã","¨","m","e"," ","|">>,
       <<"|"," ","L","e","e"," ","|"," ","B"," ","|"," ","C"," ","|">>,
       <<" ","-","-"," ",":"," ">>,
       <<"I","t","o"," ","|"," ","x"," ","|">> >>
MaxTextLines == 4
TextLines == SeqsUpTo(LinePool, MaxTextLines) \cup {<<>>}

PdfPaths == { <<"a",".","p","d","f">>, <<"d",".","v","1","/","b",".","P","D","F">> }
PlainResponses ==
    { <<>>,
      <<"A","u","c","u","n","e"," ","r","é","f","é","r","e","n","c","e"," ","t","r","o","u","v","é","e",".","\n">>,
      <<"|"," ","R","é","f","é","r","e","n","c","e"," ","|"," ","T","h","è","m","e"," ","|","\n","|"," ","D","o","e"," ","(","2","0","1","9",")"," ","|"," ","B"," ","|","\n">> }

---------------------------------------------------------------------------
(* The body of the loop of __main__.                                       *)

ParseReference ==
    /\ pc = "parse"
    /\ ref_parsed' = parse_reference(ref_text)
    /\ pc' = "analyze"
    /\ UNCHANGED <<text, references, idx, ref_text, citations, usage_contexts,
                   usage_desc, importance, theme, results, emitted, tableVars, processVars, batchVars, toolVars>>

AnalyzeReferenceUsage ==
    /\ pc = "analyze"
    /\ LET cits == find_reference_citations(text, ref_parsed)
           labels == UsageContexts(cits)
       IN  /\ citations' = cits
           /\ IF cits = <<>>
              THEN /\ usage_contexts' = <<>>
                   /\ usage_desc' = DefaultUsage
                   /\ importance' = ScoreNoCitation
              ELSE /\ usage_contexts' = labels
                   /\ \E order \in SetOrders(labels) : usage_desc' = Join(order, <<","," ">>)
                   /\ importance' = Importance(Len(cits), labels)
    /\ pc' = "categorize"
    /\ UNCHANGED <<text, references, idx, ref_text, ref_parsed, theme, results,
                   emitted, tableVars, processVars, batchVars, toolVars>>

CategorizeTheme ==
    /\ pc = "categorize"
    /\ theme' = categorize_theme(ref_parsed, usage_desc)
    /\ pc' = "assemble"
    /\ UNCHANGED <<text, references, idx, ref_text, ref_parsed, citations,
                   usage_contexts, usage_desc, importance, results, emitted, tableVars, processVars, batchVars, toolVars>>

\* no script of merge_references.py or split_pdf.py has run
InitTools ==
    /\ input_paths = None
    /\ output_name = None
    /\ read_result = <<>>
    /\ merge_result = None
    /\ pages_per_chunk = 0
    /\ output_dir = None
    /\ created_files = <<>>
    /\ raised = "none"
    /\ exit_status = None

InitRef(entries, texts) ==
    /\ InitTools
    /\ pc = "parse"
    /\ text \in texts
    /\ ref_text \in entries
    /\ references = <<>>
    /\ idx = 0
    /\ ref_parsed = NoRef
    /\ citations = <<>>
    /\ usage_contexts = <<>>
    /\ usage_desc = <<>>
    /\ importance = 0
    /\ theme = <<>>
    /\ results = <<>>
    /\ emitted = <<>>
    /\ headers = <<>>
    /\ data_rows = <<>>
    /\ in_rows = <<>>
    /\ max_themes = 0
    /\ pdf_path = <<>>
    /\ response = <<>>
    /\ table_content = None
    /\ reportlab = TRUE
    /\ files = <<>>
    /\ argv = <<>>
    /\ tasks = <<>>

\* references = extract_references_from_text(text)
ExtractReferences ==
    /\ pc = "extract"
    /\ references' = extract_references_from_text(text)
    /\ idx' = 0
    /\ pc' = "loop"
    /\ UNCHANGED <<text, refVars, results, emitted, tableVars, processVars, batchVars, toolVars>>

\* for ref_text in references
NextReference ==
    /\ pc = "loop"
    /\ idx < Len(references)
    /\ ref_text' = references[idx + 1]
    /\ pc' = "parse"
    /\ UNCHANGED <<text, references, idx, ref_parsed, citations, usage_contexts,
                   usage_desc, importance, theme, results, emitted, tableVars, processVars, batchVars, toolVars>>

\* results.append({...})
AppendResult ==
    /\ pc = "assemble"
    /\ results' = Append(results,
                    [reference  |-> ref_parsed.display,
                     theme      |-> theme,
                     usage      |-> usage_desc,
                     importance |-> importance,
                     year       |-> ref_parsed.year,
                     link       |-> ref_parsed.doi])
    /\ idx' = idx + 1
    /\ pc' = "loop"
    /\ UNCHANGED <<text, references, refVars, emitted, tableVars, processVars, batchVars, toolVars>>

\* the header, the separator and one line per result
EmitTable ==
    /\ pc = "loop"
    /\ idx = Len(references)
    /\ emitted' = EmittedTable(results)
    /\ pc' = "done"
    /\ UNCHANGED <<text, references, idx, refVars, results, tableVars, processVars, batchVars, toolVars>>

\* headers, data_rows = parse_markdown_table(table_content), on the printed table
ParseMarkdownTable ==
    /\ pc = "done"
    /\ LET t == parse_markdown_table(emitted)
       IN  /\ headers' = t.headers
           /\ data_rows' = t.rows
    /\ pc' = "parsed"
    /\ UNCHANGED <<text, references, idx, refVars, results, emitted, in_rows, max_themes, processVars, batchVars, toolVars>>

\* headers, data_rows = consolidate_themes(headers, data_rows, max_themes)
ConsolidateThemes ==
    /\ pc = "table"
    /\ data_rows' = consolidate_themes(headers, data_rows, max_themes)
    /\ pc' = "consolidated"
    /\ UNCHANGED <<text, references, idx, refVars, results, emitted, headers,
                   in_rows, max_themes, processVars, batchVars, toolVars>>

\* headers, data_rows = sort_references_by_theme_and_year(headers, data_rows)
SortReferences ==
    /\ pc = "table"
    /\ data_rows' = sort_references_by_theme_and_year(headers, data_rows)
    /\ pc' = "sorted"
    /\ UNCHANGED <<text, references, idx, refVars, results, emitted, headers,
                   in_rows, max_themes, processVars, batchVars, toolVars>>

\* table_content = extract_table_from_response(result.stdout); if table_content
ExtractTableFromResponse ==
    /\ pc = "agent_returned"
    /\ table_content' = extract_table_from_response(response)
    /\ pc' = IF table_content' # None /\ table_content' # <<>> THEN "save_pdf" ELSE "save_raw"
    /\ UNCHANGED <<text, references, idx, refVars, results, emitted, tableVars,
                   pdf_path, response, reportlab, files, batchVars, toolVars>>

\* md_path.write_text(result.stdout)
SaveRawResponse ==
    /\ pc = "save_raw"
    /\ files' = WriteFile(files, WithSuffix(OutputPathOf(pdf_path), <<".","m","d">>), response)
    /\ pc' = "returned"
    /\ UNCHANGED <<text, references, idx, refVars, results, emitted, tableVars,
                   pdf_path, response, table_content, reportlab, batchVars, toolVars>>

\* save_table_to_pdf(table_content, output_path)
SaveTableToPdf ==
    /\ pc = "save_pdf"
    /\ LET output_path == OutputPathOf(pdf_path)
           md_path == WithSuffix(output_path, <<".","m","d">>)
           t == parse_markdown_table(table_content)
       IN  files' =
             IF ~reportlab \/ Unparsable(t)
             THEN WriteFile(files, md_path, table_content)
             ELSE WriteFile(files, output_path,
                            Rendered(t.headers, SortAndConsolidate(t.headers, t.rows)))
    /\ pc' = "save_md"
    /\ UNCHANGED <<text, references, idx, refVars, results, emitted, tableVars,
                   pdf_path, response, table_content, reportlab, batchVars, toolVars>>

\* md_path.write_text(table_content)
SaveMarkdown ==
    /\ pc = "save_md"
    /\ files' = WriteFile(files, WithSuffix(OutputPathOf(pdf_path), <<".","m","d">>), table_content)
    /\ pc' = "parse_html"
    /\ UNCHANGED <<text, references, idx, refVars, results, emitted, tableVars,
                   pdf_path, response, table_content, reportlab, batchVars, toolVars>>

\* headers, data_rows = parse_markdown_table(table_content), in save_table_to_file
ParseTableContent ==
    /\ pc = "parse_html"
    /\ LET t == parse_markdown_table(table_content)
       IN  /\ headers' = t.headers
           /\ data_rows' = t.rows
    /\ pc' = "save_html"
    /\ UNCHANGED <<text, references, idx, refVars, results, emitted, in_rows,
                   max_themes, processVars, batchVars, toolVars>>

\* if headers and data_rows: sort, consolidate, then save_table_to_html, which
\* sorts and consolidates again before it writes
SaveTableToHtml ==
    /\ pc = "save_html"
    /\ LET html_path == WithSuffix(OutputPathOf(pdf_path), <<".","h","t","m","l">>)
           rows == SortAndConsolidate(headers, data_rows)
       IN  IF headers # <<>> /\ data_rows # <<>>
           THEN /\ data_rows' = rows
                /\ files' = WriteFile(files, html_path,
                                      Rendered(headers, SortAndConsolidate(headers, rows)))
           ELSE UNCHANGED <<data_rows, files>>
    /\ pc' = "returned"
    /\ UNCHANGED <<text, references, idx, refVars, results, emitted, headers, in_rows,
                   max_themes, pdf_path, response, table_content, reportlab, batchVars, toolVars>>

batchFrame == <<text, references, idx, refVars, results, emitted, tableVars,
                pdf_path, response, table_content, reportlab, files, argv, toolVars>>

\* main up to the submission of the futures
SubmitAll ==
    /\ pc = "main"
    /\ \E pdf_files \in Expansions(argv) :
          LET valid_pdfs == ValidPdfs(pdf_files)
          IN  IF argv = <<>> \/ valid_pdfs = <<>>
              THEN /\ pc' = "exit"
                   /\ tasks' = <<>>
              ELSE /\ pc' = "collecting"
                   /\ tasks' = [i \in 1..Len(valid_pdfs) |-> NewTask(valid_pdfs[i])]
    /\ UNCHANGED batchFrame

\* a worker thread takes the next future of the queue and runs process_pdf up
\* to the agent's subprocess; pdf_path.resolve() is outside the try
StartWorker(i) ==
    /\ pc = "collecting"
    /\ i \in QueuedTasks(tasks)
    /\ i = MinOf(QueuedTasks(tasks))
    /\ Cardinality(ActiveTasks(tasks)) < MaxWorkers(Len(tasks))
    /\ \/ tasks' = [tasks EXCEPT ![i].st =
                       IF tasks[i].pdf \in DiskPdfs THEN "running" ELSE "finished",
                                 ![i].outcome =
                       IF tasks[i].pdf \in DiskPdfs THEN "none" ELSE "not_found"]
       \/ tasks' = [tasks EXCEPT ![i].st = "finished", ![i].outcome = "raised"]
    /\ UNCHANGED <<pc, batchFrame>>

\* subprocess.run returns and process_pdf runs to its return: the table is
\* saved, the table-less response is saved, the exit code is not 0, or an
\* exception is raised inside the try
AgentReturns(i) ==
    /\ i \in DOMAIN tasks
    /\ tasks[i].st = "running"
    /\ \E outcome \in {"ok", "no_table", "nonzero", "error"} :
          tasks' = [tasks EXCEPT ![i].st = "finished",
                                 ![i].outcome = outcome,
                                 ![i].written =
                       IF outcome \in {"ok", "no_table"}
                       THEN OutputFiles[tasks[i].pdf][outcome = "ok"][reportlab]
                       ELSE {}]
    /\ UNCHANGED <<pc, batchFrame>>

\* for future in as_completed(future_to_pdf): print its result, or its exception
ReportResult(i) ==
    /\ pc = "collecting"
    /\ i \in DOMAIN tasks
    /\ tasks[i].st = "finished"
    /\ tasks' = [tasks EXCEPT ![i].st = "reported",
                              ![i].printed = Append(@, StatusLine(tasks[i].outcome))]
    /\ UNCHANGED <<pc, batchFrame>>

\* the loop is over: the final message
Complete ==
    /\ pc = "collecting"
    /\ \A i \in DOMAIN tasks : tasks[i].st = "reported"
    /\ pc' = "done"
    /\ UNCHANGED <<tasks, batchFrame>>

InitIdle ==
    /\ InitTools
    /\ pdf_path = <<>>
    /\ response = <<>>
    /\ table_content = None
    /\ reportlab = TRUE
    /\ files = <<>>
    /\ argv = <<>>
    /\ tasks = <<>>
    /\ references = <<>>
    /\ idx = 0
    /\ ref_text = <<>>
    /\ ref_parsed = NoRef
    /\ citations = <<>>
    /\ usage_contexts = <<>>
    /\ usage_desc = <<>>
    /\ importance = 0
    /\ theme = <<>>
    /\ emitted = <<>>

\* analyze_references.py on a document
Init ==
    /\ pc = "extract"
    /\ text \in Documents
    /\ InitIdle
    /\ results = <<>>
    /\ headers = <<>>
    /\ data_rows = <<>>
    /\ in_rows = <<>>
    /\ max_themes = 0

Next ==
    \/ ExtractReferences
    \/ NextReference
    \/ ParseReference
    \/ AnalyzeReferenceUsage
    \/ CategorizeTheme
    \/ AppendResult
    \/ EmitTable

Spec == Init /\ [][Next]_vars

\* the table of __main__, printed and parsed back
InitRoundTrip ==
    /\ pc = "loop"
    /\ text = <<>>
    /\ InitIdle
    /\ results \in ResultTables
    /\ headers = <<>>
    /\ data_rows = <<>>
    /\ in_rows = <<>>
    /\ max_themes = 0

NextRoundTrip == EmitTable \/ ParseMarkdownTable

SpecRoundTrip == InitRoundTrip /\ [][NextRoundTrip]_vars

\* the table normalizer on a parsed table
InitTable ==
    /\ pc = "table"
    /\ text = <<>>
    /\ InitIdle
    /\ results = <<>>
    /\ \/ /\ headers \in {StdHeaders, PlainHeaders}
          /\ in_rows \in SmallTables
          /\ max_themes \in 1..MaxThemesArg
       \/ /\ headers = StdHeaders
          /\ in_rows = NineThemes
          /\ max_themes = DefaultMaxThemes
    /\ data_rows = in_rows

NextTable == ConsolidateThemes

SpecTable == InitTable /\ [][NextTable]_vars

\* the sort and the consolidation, each on a parsed table
InitFrame ==
    /\ pc = "table"
    /\ text = <<>>
    /\ InitIdle
    /\ results = <<>>
    /\ headers \in {StdHeaders, PlainHeaders}
    /\ in_rows \in FrameTables
    /\ max_themes \in 1..MaxThemesArg
    /\ data_rows = in_rows

NextFrame == SortReferences \/ ConsolidateThemes

SpecFrame == InitFrame /\ [][NextFrame]_vars

\* process_pdf on a document whose agent run returned with code 0
InitProcess ==
    /\ InitTools
    /\ pc = "agent_returned"
    /\ text = <<>>
    /\ references = <<>>
    /\ idx = 0
    /\ ref_text = <<>>
    /\ ref_parsed = NoRef
    /\ citations = <<>>
    /\ usage_contexts = <<>>
    /\ usage_desc = <<>>
    /\ importance = 0
    /\ theme = <<>>
    /\ results = <<>>
    /\ emitted = <<>>
    /\ headers = <<>>
    /\ data_rows = <<>>
    /\ max_themes = DefaultMaxThemes
    /\ pdf_path \in PdfPaths
    /\ reportlab \in BOOLEAN
    /\ \/ /\ in_rows \in ResponseTables
          /\ \E before \in ProseBefore, after \in ProseAfter :
                response = before \o TableText(StdHeaders, in_rows) \o after
       \/ /\ in_rows = <<>>
          /\ response \in PlainResponses
    /\ table_content = None
    /\ files = <<>>
    /\ argv = <<>>
    /\ tasks = <<>>

NextProcess ==
    \/ ExtractTableFromResponse
    \/ SaveRawResponse
    \/ SaveTableToPdf
    \/ SaveMarkdown
    \/ ParseTableContent
    \/ SaveTableToHtml

SpecProcess == InitProcess /\ [][NextProcess]_vars

\* parse_markdown_table on table texts
InitTableText ==
    /\ InitTools
    /\ pc = "parse_html"
    /\ text = <<>>
    /\ references = <<>>
    /\ idx = 0
    /\ ref_text = <<>>
    /\ ref_parsed = NoRef
    /\ citations = <<>>
    /\ usage_contexts = <<>>
    /\ usage_desc = <<>>
    /\ importance = 0
    /\ theme = <<>>
    /\ results = <<>>
    /\ emitted = <<>>
    /\ headers = <<>>
    /\ data_rows = <<>>
    /\ max_themes = DefaultMaxThemes
    /\ pdf_path = <<>>
    /\ response = <<>>
    /\ reportlab = TRUE
    /\ files = <<>>
    /\ argv = <<>>
    /\ tasks = <<>>
    /\ in_rows \in TextLines
    /\ table_content = Join(in_rows, <<"\n">>)

SpecTableText == InitTableText /\ [][ParseTableContent]_vars

\* one run of main
InitBatch ==
    /\ InitTools
    /\ pc = "main"
    /\ text = <<>>
    /\ references = <<>>
    /\ idx = 0
    /\ ref_text = <<>>
    /\ ref_parsed = NoRef
    /\ citations = <<>>
    /\ usage_contexts = <<>>
    /\ usage_desc = <<>>
    /\ importance = 0
    /\ theme = <<>>
    /\ results = <<>>
    /\ emitted = <<>>
    /\ headers = <<>>
    /\ data_rows = <<>>
    /\ in_rows = <<>>
    /\ max_themes = DefaultMaxThemes
    /\ pdf_path = <<>>
    /\ response = <<>>
    /\ table_content = None
    /\ reportlab = TRUE
    /\ files = <<>>
    /\ argv \in {a \in ArgvPool : \A e \in Expansions(a) : Len(e) <= MaxDocs}
    /\ tasks = <<>>

NextBatch ==
    \/ SubmitAll
    \/ \E i \in 1..MaxDocs : StartWorker(i)
    \/ \E i \in 1..MaxDocs : AgentReturns(i)
    \/ \E i \in 1..MaxDocs : ReportResult(i)
    \/ Complete

SpecBatch == InitBatch /\ [][NextBatch]_vars

\* the threads keep running and the agent's subprocess returns or raises: a
\* run does not stop while one of its steps is possible
FairSpecBatch == SpecBatch /\ WF_vars(NextBatch)

InitParse == InitRef(ParseEntries, {<<>>})
InitUsage == InitRef(UsageEntries, UsageTexts)
InitTheme == InitRef(ThemeEntries, ThemeTexts)

NextRef == ParseReference \/ AnalyzeReferenceUsage \/ CategorizeTheme

\* parse_reference on bounded entry texts
SpecParse == InitParse /\ [][NextRef]_vars
\* find_reference_citations and analyze_reference_usage on bounded texts
SpecUsage == InitUsage /\ [][NextRef]_vars
\* categorize_theme on bounded entries and usage descriptions
SpecTheme == InitTheme /\ [][NextRef]_vars

---------------------------------------------------------------------------
(* merge_references.py: the markdown files of the blocks, and main         *)

\* the files and the directories under the working directory
MergeFiles ==
    { <<"o","n","e",".","m","d">>, <<"b","a","d",".","m","d">>, <<"n","o","t","e","s",".","t","x","t">>, <<"c","h","u","n","k","s","/","a","_","r","e","f","e","r","e","n","c","e","s",".","m","d">>,
      <<"c","h","u","n","k","s","/","b",".","m","d">>, <<"c","h","u","n","k","s","/","c",".","M","D">>, <<"c","h","u","n","k","s","/","n","o","t","e","s",".","t","x","t">>, <<"t","x","t","d","i","r","/","x",".","t","x","t">> }
MergeDirs == { <<"c","h","u","n","k","s">>, <<"e","m","p","t","y","d","i","r">>, <<"t","x","t","d","i","r">> }
\* the files whose read_text raises
Unreadable == { <<"b","a","d",".","m","d">> }

\* p.exists(), p.is_file()
PathExists(p) == p \in MergeFiles \cup MergeDirs
IsFile(p) == p \in MergeFiles
\* p.suffix.lower() == '.md'
IsMd(p) == Lower(PathSuffix(p)) = <<".","m","d">>
\* '*' in s or '?' in s
HasWildcard(s) == \E i \in 1..Len(s) : s[i] \in {"*", "?"}

\* sorted(paths), for paths of one directory: in the order of their names
SortedPaths(set) ==
    CHOOSE q \in Orderings(set) :
        \A i, j \in DOMAIN q : i < j => StrLess(PathName(q[i]), PathName(q[j]))

\* glob.glob(pattern), and dir.glob(pattern), for a pattern whose wildcards are
\* in its last component
PathGlob(pattern) ==
    {p \in MergeFiles \cup MergeDirs :
        PathParent(p) = PathParent(pattern) /\ FnMatch(PathName(pattern), PathName(p))}

\* expand_glob_patterns(pattern) of merge_references.py
expand_glob_patterns(pattern) ==
    SortedPaths({p \in PathGlob(pattern) : IsFile(p) /\ IsMd(p)})

\* the elements of a list that are existing '.md' files
IsMarkdownFile(p) == PathExists(p) /\ IsFile(p) /\ IsMd(p)
\* the contents read, one for each file whose read_text does not raise; a
\* content is represented by the path of its file
IsReadable(p) == p \notin Unreadable
\* return [], None
NoInput == << <<>>, None >>
\* return markdown_contents, output_dir, md_files
Found(md_files, dir) == << SelectSeq(md_files, IsReadable), dir, md_files >>

read_markdown_files(ip) ==
    IF ip.list
    THEN LET md_files == SelectSeq(ip.value, IsMarkdownFile)
         IN  IF md_files = <<>> THEN NoInput
             ELSE Found(md_files, PathParent(md_files[1]))
    ELSE IF HasWildcard(ip.value)
    THEN LET md_files == expand_glob_patterns(ip.value)
         IN  IF md_files = <<>> THEN NoInput
             ELSE Found(md_files, PathParent(md_files[1]))
    ELSE IF ~PathExists(ip.value) THEN NoInput
    ELSE IF IsFile(ip.value)
    THEN IF ~IsMd(ip.value) THEN NoInput
         ELSE Found(<<ip.value>>, PathParent(ip.value))
    ELSE LET md_files ==
                SortedPaths(PathGlob(JoinPath(ip.value, <<"*","_","r","e","f","e","r","e","n","c","e","s",".","m","d">>))
                            \cup PathGlob(JoinPath(ip.value, <<"*",".","m","d">>)))
         IN  IF md_files = <<>> THEN NoInput ELSE Found(md_files, ip.value)

\* stem.replace("_references", "").replace("_chunk_", "_")
BlockBase(stem) == ReplaceAll(ReplaceAll(stem, <<"_","r","e","f","e","r","e","n","c","e","s">>, <<>>), <<"_","c","h","u","n","k","_">>, <<"_">>)

\* the output name merge_references settles on
MergedName(ip, name) ==
    IF name # None THEN PathStem(name)
    ELSE IF ip.list THEN BlockBase(PathStem(ip.value[1])) \o <<"_","r","e","f","e","r","e","n","c","e","s","_","m","e","r","g","e","d">>
    ELSE IF HasWildcard(ip.value)
    THEN IF expand_glob_patterns(ip.value) # <<>>
         THEN BlockBase(PathStem(expand_glob_patterns(ip.value)[1])) \o <<"_","r","e","f","e","r","e","n","c","e","s","_","m","e","r","g","e","d">>
         ELSE <<"r","e","f","e","r","e","n","c","e","s","_","m","e","r","g","e","d">>
    ELSE IF IsFile(ip.value)
    THEN BlockBase(PathStem(ip.value)) \o <<"_","r","e","f","e","r","e","n","c","e","s","_","m","e","r","g","e","d">>
    ELSE ReplaceAll(PathStem(ip.value), <<"_","c","h","u","n","k","s">>, <<>>) \o <<"_","r","e","f","e","r","e","n","c","e","s","_","m","e","r","g","e","d">>

\* save_table_to_file(table_content, output_path): the files after it
save_table_to_file(fs, content, output_path, with_reportlab) ==
    LET md_path == WithSuffix(output_path, <<".","m","d">>)
        html_path == WithSuffix(output_path, <<".","h","t","m","l">>)
        t == parse_markdown_table(content)
        once == SortAndConsolidate(t.headers, t.rows)
        after_pdf == IF ~with_reportlab \/ Unparsable(t)
                     THEN WriteFile(fs, md_path, content)
                     ELSE WriteFile(fs, output_path, Rendered(t.headers, once))
        after_md == WriteFile(after_pdf, md_path, content)
    IN  IF t.headers # <<>> /\ t.rows # <<>>
        THEN WriteFile(after_md, html_path,
                       Rendered(t.headers, SortAndConsolidate(t.headers, once)))
        ELSE after_md

\* the answers of the agent to the merge prompt
MergeResponses ==
    PlainResponses \cup {TableText(StdHeaders, <<FramePool[1], FramePool[2]>>)}

\* command lines of merge_references.py
MaxMergeArgs == 2
MergeArgs ==
    << <<"n","o","s","u","c","h">>, <<"e","m","p","t","y","d","i","r">>, <<"t","x","t","d","i","r">>, <<"c","h","u","n","k","s">>, <<"*",".","z","z","z">>,
       <<"c","h","u","n","k","s","/","*",".","m","d">>, <<"n","o","t","e","s",".","t","x","t">>, <<"o","n","e",".","m","d">>, <<"b","a","d",".","m","d">>,
       <<"c","h","u","n","k","s","/","b",".","m","d">>, <<"n","o","s","u","c","h",".","m","d">> >>

mergeFrame == <<text, references, idx, refVars, results, emitted, tableVars,
                pdf_path, reportlab, argv, tasks, splitVars>>

\* main up to the call of merge_references
MergeMain ==
    /\ pc = "merge_main"
    /\ IF argv = <<>>
       THEN /\ exit_status' = 1
            /\ pc' = "exited"
            /\ UNCHANGED <<input_paths, output_name>>
       ELSE LET last == argv[Len(argv)]
                named == /\ Len(argv) >= 2
                         /\ ~PathExists(last)
                         /\ ~HasWildcard(last)
                         /\ PathSuffix(last) # <<".","m","d">>
                paths == IF named THEN SubSeq(argv, 1, Len(argv) - 1) ELSE argv
            IN  /\ input_paths' = IF Len(paths) = 1
                                  THEN [list |-> FALSE, value |-> paths[1]]
                                  ELSE [list |-> TRUE, value |-> paths]
                /\ output_name' = IF named THEN last ELSE None
                /\ pc' = "merge_read"
                /\ UNCHANGED exit_status
    /\ UNCHANGED <<mergeFrame, response, table_content, files, read_result,
                   merge_result, raised>>

\* result = read_markdown_files(input_paths)
ReadMarkdownFiles ==
    /\ pc = "merge_read"
    /\ read_result' = read_markdown_files(input_paths)
    /\ pc' = "merge_unpack"
    /\ UNCHANGED <<mergeFrame, response, table_content, files, input_paths,
                   output_name, merge_result, exitVars>>

\* merge_references from the test of result to the test of one single content
UnpackResult ==
    /\ pc = "merge_unpack"
    /\ IF read_result = <<>> \/ read_result[1] = None
       THEN /\ merge_result' = None
            /\ pc' = "merge_returned"
            /\ UNCHANGED raised
       ELSE IF Len(read_result) # 3
       THEN /\ raised' = "ValueError"
            /\ pc' = "raised"
            /\ UNCHANGED merge_result
       ELSE IF read_result[2] = None \/ Len(read_result[1]) <= 1
       THEN /\ merge_result' = None
            /\ pc' = "merge_returned"
            /\ UNCHANGED raised
       ELSE /\ pc' = "merge_agent"
            /\ UNCHANGED <<merge_result, raised>>
    /\ UNCHANGED <<mergeFrame, response, table_content, files, input_paths,
                   output_name, read_result, exit_status>>

\* the try block of merge_references: the agent's run, and the files saved
MergeAgent ==
    /\ pc = "merge_agent"
    /\ LET out == JoinPath(read_result[2],
                           MergedName(input_paths, output_name) \o <<".","p","d","f">>)
       IN  \/ /\ merge_result' = None
              /\ UNCHANGED <<response, table_content, files>>
           \/ \E stdout \in MergeResponses :
                 LET found == extract_table_from_response(stdout)
                 IN  /\ response' = stdout
                     /\ table_content' = found
                     /\ IF found # None /\ found # <<>>
                        THEN /\ files' = save_table_to_file(files, found, out, reportlab)
                             /\ merge_result' = out
                        ELSE /\ files' = WriteFile(files, WithSuffix(out, <<".","m","d">>), stdout)
                             /\ merge_result' = None
    /\ pc' = "merge_returned"
    /\ UNCHANGED <<mergeFrame, input_paths, output_name, read_result, exitVars>>

\* sys.exit(1) if result is None, else sys.exit(0)
MergeExit ==
    /\ pc = "merge_returned"
    /\ exit_status' = IF merge_result = None THEN 1 ELSE 0
    /\ pc' = "exited"
    /\ UNCHANGED <<mergeFrame, response, table_content, files, mergeVars, raised>>

\* an exception that no handler of the script catches ends the interpreter
\* with status 1
UncaughtExit ==
    /\ pc = "raised"
    /\ exit_status' = 1
    /\ pc' = "exited"
    /\ UNCHANGED <<mergeFrame, response, table_content, files, mergeVars, raised>>

InitMerge ==
    /\ pc = "merge_main"
    /\ text = <<>>
    /\ references = <<>>
    /\ idx = 0
    /\ ref_text = <<>>
    /\ ref_parsed = NoRef
    /\ citations = <<>>
    /\ usage_contexts = <<>>
    /\ usage_desc = <<>>
    /\ importance = 0
    /\ theme = <<>>
    /\ results = <<>>
    /\ emitted = <<>>
    /\ headers = <<>>
    /\ data_rows = <<>>
    /\ in_rows = <<>>
    /\ max_themes = DefaultMaxThemes
    /\ pdf_path = <<>>
    /\ response = <<>>
    /\ table_content = None
    /\ reportlab \in BOOLEAN
    /\ files = <<>>
    /\ tasks = <<>>
    /\ InitTools
    /\ argv \in SeqsUpTo(MergeArgs, MaxMergeArgs)

NextMerge ==
    \/ MergeMain
    \/ ReadMarkdownFiles
    \/ UnpackResult
    \/ MergeAgent
    \/ MergeExit
    \/ UncaughtExit

\* merge_references.py on bounded command lines
SpecMerge == InitMerge /\ [][NextMerge]_vars

---------------------------------------------------------------------------
(* split_pdf.py: main and split_pdf                                        *)

\* pages_per_chunk = 20
DefaultPagesPerChunk == 20

\* int(s): surrounding whitespace and one sign are accepted, then decimal
\* digits; anything else is a ValueError
ParseInt(s) ==
    LET t == Strip(s)
        signed == t # <<>> /\ t[1] \in {"+", "-"}
        body == IF signed THEN Tail(t) ELSE t
    IN  IF body # <<>> /\ \A i \in 1..Len(body) : body[i] \in Digits
        THEN [ok |-> TRUE,
              value |-> IF signed /\ t[1] = "-" THEN 0 - DigitsValue(body)
                        ELSE DigitsValue(body)]
        ELSE [ok |-> FALSE, value |-> 0]

\* the PDF files under the working directory that can be read, with their
\* number of pages, and the other files
PdfPages == [p \in { <<"a",".","p","d","f">> } |-> 45]
SplitDisk == DOMAIN PdfPages \cup { <<"b","r","o","k","e","n",".","p","d","f">>, <<"n","o","t","e","s",".","t","x","t">> }

\* f"{chunk_num + 1:03d}"
ZeroPad3(n) ==
    IF n < 10 THEN <<"0","0">> \o IntToStr(n)
    ELSE IF n < 100 THEN <<"0">> \o IntToStr(n)
    ELSE IntToStr(n)

\* the file of block k (from 1) of a document split into blocks of per pages
ChunkPath(input_path, dir, k, per, total) ==
    LET stem == PathStem(input_path)
        parent == IF dir = None THEN PathParent(input_path) ELSE dir
        first == (k - 1) * per + 1
        last == Min(k * per, total)
    IN  JoinPath(JoinPath(parent, stem \o <<"_","c","h","u","n","k","s">>),
                 stem \o <<"_","c","h","u","n","k","_">> \o ZeroPad3(k) \o <<"_","p","a","g","e","s","_">>
                      \o IntToStr(first) \o <<"-">> \o IntToStr(last) \o <<".","p","d","f">>)

\* split_pdf(input_path, pages_per_chunk, output_dir): the files it creates
split_pdf(input_path, per, dir, pdf_library) ==
    IF input_path \notin SplitDisk \/ ~IsPdf(input_path) THEN <<>>
    ELSE IF ~pdf_library \/ input_path \notin DOMAIN PdfPages THEN <<>>
    ELSE LET total == PdfPages[input_path]
             num_chunks == (total + per - 1) \div per
         IN  [k \in 1..num_chunks |-> ChunkPath(input_path, dir, k, per, total)]

\* command lines of split_pdf.py
MaxSplitArgs == 4
SplitArgs ==
    << <<"a",".","p","d","f">>, <<"b","r","o","k","e","n",".","p","d","f">>, <<"n","o","t","e","s",".","t","x","t">>, <<"n","o","s","u","c","h",".","p","d","f">>, <<"2","0">>,
       <<"5">>, <<"0">>, <<"-","3">>, <<"a","b","c">>, <<" ","7"," ">>, <<"o","u","t">> >>

splitFrame == <<text, references, idx, refVars, results, emitted, tableVars,
                pdf_path, response, table_content, reportlab, argv, tasks,
                mergeVars>>

\* main up to the call of split_pdf
SplitMain ==
    /\ pc = "split_main"
    /\ IF argv = <<>>
       THEN /\ exit_status' = 1
            /\ pc' = "exited"
            /\ UNCHANGED <<pages_per_chunk, output_dir, raised>>
       ELSE /\ pages_per_chunk' =
                 IF Len(argv) >= 2 /\ ParseInt(argv[2]).ok /\ ParseInt(argv[2]).value >= 1
                 THEN ParseInt(argv[2]).value
                 ELSE DefaultPagesPerChunk
            /\ IF Len(argv) >= 3
               THEN IF 4 \in DOMAIN argv
                    THEN /\ output_dir' = argv[4]
                         /\ pc' = "split_call"
                         /\ UNCHANGED raised
                    ELSE /\ raised' = "IndexError"
                         /\ pc' = "raised"
                         /\ UNCHANGED output_dir
               ELSE /\ pc' = "split_call"
                    /\ UNCHANGED <<output_dir, raised>>
            /\ UNCHANGED exit_status
    /\ UNCHANGED <<splitFrame, files, created_files>>

\* split_pdf(input_path, pages_per_chunk, output_dir), with or without a PDF
\* library installed
SplitPdf ==
    /\ pc = "split_call"
    /\ \E pdf_library \in BOOLEAN :
          LET created == split_pdf(argv[1], pages_per_chunk, output_dir, pdf_library)
          IN  /\ created_files' = created
              /\ files' = [q \in DOMAIN files \cup Range(created) |->
                              IF q \in Range(created)
                              THEN CHOOSE k \in DOMAIN created : created[k] = q
                              ELSE files[q]]
    /\ pc' = "split_returned"
    /\ UNCHANGED <<splitFrame, pages_per_chunk, output_dir, exitVars>>

\* main returns: the interpreter ends with status 0
SplitExit ==
    /\ pc = "split_returned"
    /\ exit_status' = 0
    /\ pc' = "exited"
    /\ UNCHANGED <<splitFrame, files, splitVars, raised>>

InitSplit ==
    /\ pc = "split_main"
    /\ text = <<>>
    /\ references = <<>>
    /\ idx = 0
    /\ ref_text = <<>>
    /\ ref_parsed = NoRef
    /\ citations = <<>>
    /\ usage_contexts = <<>>
    /\ usage_desc = <<>>
    /\ importance = 0
    /\ theme = <<>>
    /\ results = <<>>
    /\ emitted = <<>>
    /\ headers = <<>>
    /\ data_rows = <<>>
    /\ in_rows = <<>>
    /\ max_themes = DefaultMaxThemes
    /\ pdf_path = <<>>
    /\ response = <<>>
    /\ table_content = None
    /\ reportlab = TRUE
    /\ files = <<>>
    /\ tasks = <<>>
    /\ InitTools
    /\ argv \in SeqsUpTo(SplitArgs, MaxSplitArgs)

NextSplit ==
    \/ SplitMain
    \/ SplitPdf
    \/ SplitExit
    \/ UncaughtExit

\* split_pdf.py on bounded command lines
SpecSplit == InitSplit /\ [][NextSplit]_vars

---------------------------------------------------------------------------
(* Properties.                                                             *)

EndsWith(s, p) == Len(p) <= Len(s) /\ MatchesAt(s, Len(s) - Len(p), p)

\* C1: when a table has more than max_themes distinct themes, consolidate_themes
\* returns exactly max_themes distinct themes: the max_themes most frequent themes
\* are unchanged and every other theme is remapped to 'Autre'.
C1_ExactlyMaxThemes ==
    LET ti == HeaderIndex(headers, ThemeHeader)
        before == ThemesOf(in_rows, ti)
    IN  (pc = "consolidated" /\ ti # 0 /\ Cardinality(before) > max_themes) =>
           /\ Cardinality(ThemesOf(data_rows, ti)) = max_themes
           /\ \E kept \in SUBSET before :
                 /\ Cardinality(kept) = max_themes
                 /\ \A a \in kept, b \in before \ kept :
                       ThemeCount(in_rows, ti, a) >= ThemeCount(in_rows, ti, b)
                 /\ \A r \in 1..Len(in_rows) :
                       data_rows[r][ti] =
                         IF in_rows[r][ti] \in kept THEN in_rows[r][ti] ELSE OtherTheme

\* C2: with n citations, analyze_reference_usage gives the default description
\* and 30 when n = 0; otherwise 85 if n > 5, 70 if n > 2, 50 if n > 0, raised by 15
\* (capped at 100) iff 'justification de méthode' or 'cadre théorique' was assigned
\* to an examined window; the score is one of 30, 50, 65, 70, 85, 100.
C2_ImportanceFromCitationCount ==
    pc \in {"categorize", "assemble"} =>
        LET n == Len(citations)
            base == IF n > 5 THEN 85 ELSE IF n > 2 THEN 70 ELSE 50
            bonus == \E i \in DOMAIN usage_contexts :
                        usage_contexts[i] \in {LabelMethod, LabelFramework}
        IN  /\ n = 0 => usage_desc = DefaultUsage /\ importance = 30
            /\ n > 0 /\ bonus => importance = Min(100, base + 15)
            /\ n > 0 /\ ~bonus => importance = base
            /\ importance \in {30, 50, 65, 70, 85, 100}
            /\ importance \in 0..100

\* C2: more than five citations with a method or framework window score 100
C2_Witness ==
    /\ pc = "categorize"
    /\ Len(citations) > 5
    /\ LabelMethod \in Range(usage_contexts)
    /\ importance = 100

ClaimedThemeOrder ==
    <<ThemeGnss, ThemeGeodesy, ThemeProcessing, ThemeModelling, ThemeInstruments>>
ThemeWordsOf(label) ==
    (CHOOSE c \in Range(ThemeCategories) : c.label = label).words
ThemeInput == Lower(ref_parsed.full_ref \o <<" ">> \o usage_desc)

\* C3: categorize_theme returns exactly one of the six labels, the first in the
\* order GNSS-acoustic, geodesy, processing, modelling, instruments with a keyword in
\* the lower-cased reference text plus usage description, else 'Applications et
\* études de cas'; geodesy and modelling keywords without a GNSS one give geodesy.
C3_ThemeByFirstMatch ==
    pc = "assemble" =>
        LET hits == {i \in 1..5 : HasAny(ThemeWordsOf(ClaimedThemeOrder[i]), ThemeInput)}
        IN  /\ theme \in Range(ClaimedThemeOrder) \cup {ThemeApplications}
            /\ theme = IF hits = {} THEN ThemeApplications
                       ELSE ClaimedThemeOrder[MinOf(hits)]
            /\ (2 \in hits /\ 4 \in hits /\ 1 \notin hits) => theme = ThemeGeodesy

\* C3: a reference with a geodesy and a modelling keyword and no GNSS keyword
C3_Witness ==
    /\ pc = "assemble"
    /\ Contains(ThemeInput, <<"f","a","u","l","t">>)
    /\ Contains(ThemeInput, <<"m","o","d","e","l">>)
    /\ ~HasAny(ThemeWordsOf(ThemeGnss), ThemeInput)
    /\ theme = ThemeGeodesy

\* an occurrence, from offset a to offset b, of '(', four digits, an optional
\* lowercase letter, ')'
IsYearOccurrence(s, a, b) ==
    /\ b \in {a + 6, a + 7}
    /\ b <= Len(s)
    /\ At(s, a) = "("
    /\ At(s, b - 1) = ")"
    /\ \A j \in (a + 1)..(a + 4) : At(s, j) \in Digits
    /\ b = a + 7 => At(s, a + 5) \in AsciiLower
YearOccurrences(s) ==
    {o \in (0..Len(s)) \X (0..Len(s)) : IsYearOccurrence(s, o[1], o[2])}

\* C4: parse_reference sets year to the content of the first occurrence of '(',
\* four digits, an optional lowercase letter, ')' (so it is non-empty then), and to
\* the empty string when there is none.
C4_YearIsFirstOccurrence ==
    pc # "parse" =>
        LET occ == YearOccurrences(ref_text)
        IN  IF occ = {} THEN ref_parsed.year = <<>>
            ELSE \E o \in occ :
                    /\ \A p \in occ : o[1] <= p[1]
                    /\ ref_parsed.year = SubSeq(ref_text, o[1] + 2, o[2] - 1)
                    /\ ref_parsed.year # <<>>

\* C4: the year carries its letter and follows a five-digit look-alike
C4_Witness ==
    /\ pc = "analyze"
    /\ MatchesAt(ref_text, 0, <<"(","2","0","1","9","9",")">>)
    /\ ref_parsed.year = <<"2","0","2","0","b">>

\* C5: display is authors + ' (' + year + ')' when the title is empty and
\* authors + ' (' + year + ') - ' + title otherwise, for the values of the same
\* result.
C5_DisplayLabel ==
    pc # "parse" =>
        ref_parsed.display =
            IF ref_parsed.title = <<>>
            THEN ref_parsed.authors \o <<" ","(">> \o ref_parsed.year \o <<")">>
            ELSE ref_parsed.authors \o <<" ","(">> \o ref_parsed.year \o <<")"," ","-"," ">>
                   \o ref_parsed.title

\* C5: an entry parsed with authors, year and title
C5_Witness ==
    /\ pc = "analyze"
    /\ ref_parsed.authors # <<>>
    /\ ref_parsed.year # <<>>
    /\ ref_parsed.title # <<>>

\* C6: a text without the marker 'BIBLIOGRAPHIE' gives no reference.
C6_NoMarkerNoReferences ==
    (pc # "extract" /\ ~Contains(text, BibMarker)) => references = <<>>

\* C6: a text without the marker that holds an entry line
C6_Witness ==
    /\ pc = "loop"
    /\ ~Contains(text, BibMarker)
    /\ MatchesAt(text, 0, <<"S","m","i","t","h",","," ","J","."," ","(","2","0","1","9",")",".">>)

\* C7: a parsed reference whose year is empty has no citation, whatever its
\* authors and the text.
C7_NoYearNoCitation ==
    (pc \in {"categorize", "assemble"} /\ ref_parsed.year = <<>>) => citations = <<>>

\* C7: a reference without year whose author and '()' occur in the text
C7_Witness ==
    /\ pc = "categorize"
    /\ ref_parsed.year = <<>>
    /\ ref_parsed.authors # <<>>
    /\ Contains(text, ref_parsed.authors)
    /\ Contains(text, <<"(",")">>)

ClaimedUsageOrder ==
    <<LabelMethod, LabelFramework, LabelResults, LabelHypothesis, LabelExample>>
UsageWordsOf(label) ==
    (CHOOSE c \in Range(UsageCategories) : c.label = label).words
ClaimedLabel(window) ==
    LET lowered == Lower(window)
        hits == {i \in 1..5 : HasAny(UsageWordsOf(ClaimedUsageOrder[i]), lowered)}
    IN  IF hits = {} THEN LabelGeneral ELSE ClaimedUsageOrder[MinOf(hits)]
DescriptionLabels(desc) ==
    LET parts == Split(desc, ",") IN [i \in 1..Len(parts) |-> Strip(parts[i])]

\* C8: with at least one citation, only the first three windows are examined, each
\* gets the first label in the order method, framework, results, hypothesis, example
\* with a keyword in the lower-cased window, else 'référence générale'; the
\* description holds exactly the distinct labels; when every examined window holds
\* 'method' it holds 'justification de méthode' and the importance is at least 65.
C8_FirstThreeWindows ==
    (pc = "categorize" /\ citations # <<>>) =>
        LET examined == 1..Min(3, Len(citations))
            given == DescriptionLabels(usage_desc)
        IN  /\ DOMAIN usage_contexts = examined
            /\ \A i \in examined : usage_contexts[i] = ClaimedLabel(citations[i].context)
            /\ Range(given) = Range(usage_contexts)
            /\ Len(given) = Cardinality(Range(usage_contexts))
            /\ (\A i \in examined : Contains(Lower(citations[i].context), <<"m","e","t","h","o","d">>))
                  => /\ Contains(usage_desc, LabelMethod)
                     /\ importance >= 65

\* C8: a fourth citation whose window would get a label no examined window got
C8_Witness ==
    /\ pc = "categorize"
    /\ Len(citations) > 3
    /\ \E i \in 4..Len(citations) :
          ClaimedLabel(citations[i].context) \notin Range(usage_contexts)

\* the table __main__ printed for results, as parse_markdown_table should return it
ExpectedRows ==
    [r \in 1..Len(results) |->
        LET cells == ResultCells(results[r])
        IN  [i \in 1..Len(cells) |-> FixCell(cells[i])]]

\* C9: printing a table of rows the way __main__ does and parsing the text with
\* parse_markdown_table gives the same headers and the same rows, in order, up to
\* the accent corrections.
C9_RoundTrip ==
    pc = "parsed" => headers = StdHeaders /\ data_rows = ExpectedRows

\* the form of the end-to-end scenario
ScenarioLines == Split(text, "\n")
IsScenario ==
    /\ Len(ScenarioLines) = 4
    /\ ScenarioLines[1] = BibMarker
    /\ MatchesAt(ScenarioLines[2], 0, <<"S","m","i","t","h",","," ","J","."," ","(","2","0","1","9",")","."," ">>)
    /\ EndsWith(ScenarioLines[2], <<" ","h","t","t","p","s",":","/","/","d","o","i",".","o","r","g","/","1","0",".","1","/","x","y","z">>)
    /\ ScenarioLines[3] = <<>>
    /\ ScenarioLines[4] # <<>>
    /\ ScenarioLines[4][1] \notin AsciiUpper
    /\ Contains(ScenarioLines[4], <<"S","m","i","t","h"," ","(","2","0","1","9",")">>)
    /\ Contains(ScenarioLines[4], <<"m","e","t","h","o","d">>)
ScenarioOutcome ==
    /\ Len(results) = 1
    /\ results[1].year = <<"2","0","1","9">>
    /\ EndsWith(results[1].link, <<"1","0",".","1","/","x","y","z">>)
    /\ results[1].importance >= 50

\* C10 as stated: the scenario document gives exactly one row, with year '2019', a
\* link ending in '10.1/xyz' and an importance of at least 50.
C10_Scenario ==
    (pc = "done" /\ IsScenario) => ScenarioOutcome

\* C10 as amended: the same, for an entry line that holds no 'Titre :' and no other
\* 'doi.org/' address, and a body line whose first non-blank character is not a
\* capital letter.
C10_ScenarioAmended ==
    ( /\ pc = "done"
      /\ IsScenario
      /\ ~Contains(ScenarioLines[2], NextSectionMarker)
      /\ Find(ScenarioLines[2], <<"d","o","i",".","o","r","g","/">>) = Len(ScenarioLines[2]) - 16
      /\ Strip(ScenarioLines[4])[1] \notin AsciiUpper )
    => ScenarioOutcome

\* C10: the scenario has run to its end on the document of the specification
C10_Witness ==
    /\ pc = "done"
    /\ text = Join(<<DocLines[1], DocLines[2], DocLines[3], DocLines[4]>>, <<"\n">>)
    /\ Len(results) = 1
    /\ results[1].importance = 85


\* the stripped lines of the span from the first 'BIBLIOGRAPHIE' to the first
\* following 'Titre :' (or the end of the text)
SpanLines ==
    LET lines == Split(BibSection(text)[2], "\n")
    IN  [i \in 1..Len(lines) |-> Strip(lines[i])]
StartsOf(lines) == {i \in 1..Len(lines) : IsEntryStart(lines[i])}
SpanStarts == StartsOf(SpanLines)
\* the last line of the entry opened by line i: the lines after it up to the next
\* blank line or entry-start line
EntryEndOf(lines, starts, i) ==
    MaxOf({j \in i..Len(lines) :
              \A k \in (i + 1)..j : lines[k] # <<>> /\ k \notin starts})
EntryTextOf(lines, starts, i) ==
    Join(SubSeq(lines, i, EntryEndOf(lines, starts, i)), <<" ">>)
SpanEntryEnd(i) == EntryEndOf(SpanLines, SpanStarts, i)
SpanEntryText(i) == EntryTextOf(SpanLines, SpanStarts, i)
SpanEntries ==
    LET lines == [i \in 1..Len(SpanLines) |-> SpanLines[i]]
        starts == StartsOf(lines)
        Kept(i) == i \in starts /\ Len(EntryTextOf(lines, starts, i)) > 20
        kept == SelectSeq([i \in 1..Len(lines) |-> i], Kept)
    IN  [k \in 1..Len(kept) |-> EntryTextOf(lines, starts, kept[k])]

\* C18: within the span from the first 'BIBLIOGRAPHIE' to the first following
\* 'Titre :', extract_references_from_text returns, in document order, one entry per
\* entry-start line: that line and the non-blank, non-start lines after it up to the
\* next blank or start line, stripped and joined by single spaces; lines met while no
\* entry is open are dropped, and an entry is kept iff it is longer than 20 characters.
C18_EntriesOfTheSpan ==
    (pc # "extract" /\ BibSection(text)[1]) => references = SpanEntries

\* C18: an entry of 20 characters was dropped, a kept entry spans two lines
C18_Witness ==
    /\ pc = "loop"
    /\ BibSection(text)[1]
    /\ \E i \in SpanStarts : Len(SpanEntryText(i)) = 20
    /\ \E i \in SpanStarts : SpanEntryEnd(i) > i /\ SpanEntryText(i) \in Range(references)


\* the year match of the entry being handled, as the claims describe it: the first
\* occurrence of a parenthesised four-digit year with an optional lowercase letter
EntryYearMatch ==
    LET occ == YearOccurrences(ref_text)
    IN  IF occ = {} THEN {}
        ELSE {CHOOSE o \in occ : \A p \in occ : o[1] <= p[1]}
\* the whitespace-normalised text before the year match o, and its tokens
AuthorsText(o) == CollapseWhitespace(Strip(SubSeq(ref_text, 1, o[1])))
AuthorTokens(o) ==
    LET parts == Split(AuthorsText(o), ",")
    IN  [i \in 1..Len(parts) |-> Strip(parts[i])]
HasEtAlMarker(o) == Contains(Lower(AuthorsText(o)), <<"e","t"," ","a","l">>)
EtAlSuffix == <<" ","e","t"," ","a","l",".">>
\* the authors by the rule for a text with tokens
AuthorsByTokens(o) ==
    LET tokens == AuthorTokens(o)
    IN  IF HasEtAlMarker(o) THEN tokens[1] \o EtAlSuffix
        ELSE Join(SubSeq(tokens, 1, Min(3, Len(tokens))), <<",", " ">>)
             \o (IF Len(tokens) > 3 THEN EtAlSuffix ELSE <<>>)
\* the authors of an entry without year match
AuthorsWithoutYear ==
    IF "," \in Range(ref_text)
    THEN SubSeq(ref_text, 1, MinOf({i \in 1..Len(ref_text) : ref_text[i] = ","}) - 1)
    ELSE SubSeq(ref_text, 1, Min(50, Len(ref_text)))

\* C19 as stated: with a year match, the authors are the first comma-separated token
\* of the normalised text before the match followed by ' et al.' when that text holds
\* an 'et al.' marker, else its first (up to) 3 tokens joined by commas, with
\* ' et al.' appended iff there were more than 3; without a year match, the text
\* before the first comma, or the first 50 characters.
C19_Authors ==
    pc # "parse" =>
        IF EntryYearMatch = {} THEN ref_parsed.authors = AuthorsWithoutYear
        ELSE \A o \in EntryYearMatch : ref_parsed.authors = AuthorsByTokens(o)

\* C19 as amended: the token rule applies when the normalised text before the year
\* match contains ', '; otherwise the authors are that text unchanged.
C19_AuthorsAmended ==
    pc # "parse" =>
        IF EntryYearMatch = {} THEN ref_parsed.authors = AuthorsWithoutYear
        ELSE \A o \in EntryYearMatch :
                ref_parsed.authors =
                    IF Contains(AuthorsText(o), <<",", " ">>) THEN AuthorsByTokens(o)
                    ELSE AuthorsText(o)

\* C19: more than three tokens before the year, shortened to three and ' et al.'
C19_Witness ==
    /\ pc = "analyze"
    /\ \E o \in EntryYearMatch :
          /\ Len(AuthorTokens(o)) > 3
          /\ ~HasEtAlMarker(o)
          /\ EndsWith(ref_parsed.authors, EtAlSuffix)

\* the text that follows the year match o up to but excluding the next comma
TextAfterYear(o) ==
    LET commas == {i \in (o[2] + 1)..Len(ref_text) : ref_text[i] = ","}
    IN  SubSeq(ref_text, o[2] + 1, IF commas = {} THEN Len(ref_text) ELSE MinOf(commas) - 1)

\* C20: the title is the whitespace-normalised text that follows the year match up
\* to but excluding the next comma, cut to its first 100 characters followed by '...'
\* when longer than 100 (so never longer than 103); it is empty when there is no
\* year match or the text after the year begins with a comma.
C20_Title ==
    pc # "parse" =>
        /\ Len(ref_parsed.title) <= 103
        /\ IF EntryYearMatch = {} THEN ref_parsed.title = <<>>
           ELSE \A o \in EntryYearMatch :
                   LET normal == CollapseWhitespace(Strip(TextAfterYear(o)))
                   IN  /\ ref_parsed.title =
                            IF Len(normal) > 100
                            THEN SubSeq(normal, 1, 100) \o <<".", ".", ".">>
                            ELSE normal
                       /\ (o[2] < Len(ref_text) /\ ref_text[o[2] + 1] = ",")
                             => ref_parsed.title = <<>>

\* C20: a title of more than 100 characters, cut and marked
C20_Witness ==
    /\ pc = "analyze"
    /\ Len(ref_parsed.title) = 103
    /\ EndsWith(ref_parsed.title, <<".", ".", ".">>)


\* the row lines of the printed table: the lines after the header and the separator
EmittedRowLines ==
    LET lines == Split(emitted, "\n")
    IN  [r \in 1..Len(results) |-> lines[r + 2]]
\* the cell values as printed for a result: the reference escaped, the others as is
PrintedCells(result) ==
    << ReplaceAll(result.reference, <<"|">>, <<"\\", "|">>), result.theme, result.usage,
       IntToStr(result.importance), result.year, result.link >>
HasUnescapedPipe(cell) ==
    \E i \in 1..Len(cell) : cell[i] = "|" /\ (i = 1 \/ cell[i - 1] # "\\")

\* C15: in every row line printed by analyze_references.py no cell value holds an
\* unescaped '|', so every row line splits on '|' into exactly six cells.
C15_NoUnescapedPipe ==
    pc = "done" =>
        \A r \in 1..Len(results) :
            /\ \A c \in Range(PrintedCells(results[r])) : ~HasUnescapedPipe(c)
            /\ Len(Split(EmittedRowLines[r], "|")) - 2 = 6


\* the number of times row occurs in rows
Occurrences(rows, row) == Cardinality({r \in 1..Len(rows) : rows[r] = row})

\* C16: sort_references_by_theme_and_year and consolidate_themes leave the headers,
\* the number of rows and every cell other than the theme cell unchanged; the sort
\* only permutes the rows, the consolidation changes only theme cells, never the order.
C16_Frame ==
    LET ti == HeaderIndex(headers, ThemeHeader)
    IN  /\ headers \in {StdHeaders, PlainHeaders}
        /\ Len(data_rows) = Len(in_rows)
        /\ pc = "sorted" =>
              \A row \in Range(in_rows) \cup Range(data_rows) :
                  Occurrences(data_rows, row) = Occurrences(in_rows, row)
        /\ pc = "consolidated" =>
              \A r \in 1..Len(in_rows) :
                  /\ Len(data_rows[r]) = Len(in_rows[r])
                  /\ \A i \in 1..Len(in_rows[r]) :
                        i # ti => data_rows[r][i] = in_rows[r][i]

\* C16: the sort has moved a row
C16_WitnessSorted ==
    /\ pc = "sorted"
    /\ data_rows # in_rows
\* C16: the consolidation has rewritten a theme cell
C16_Witness ==
    /\ pc = "consolidated"
    /\ data_rows # in_rows
    /\ Len(in_rows) = 3


\* the output path and its '.md' sibling, for the document being processed
OutputPath == OutputPathOf(pdf_path)
MarkdownPath == WithSuffix(OutputPath, <<".", "m", "d">>)
HtmlPath == WithSuffix(OutputPath, <<".", "h", "t", "m", "l">>)

\* C11: when parse_markdown_table yields no headers or no data rows for the table
\* text, save_table_to_pdf does not render: it writes the text it was given,
\* unchanged, to the '.md' sibling of the output path and returns.
C11_UnparsableSavedAsMarkdown ==
    LET t == parse_markdown_table(table_content)
    IN  (pc = "save_md" /\ (t.headers = <<>> \/ t.rows = <<>>)) =>
            /\ OutputPath \notin DOMAIN files
            /\ DOMAIN files = {MarkdownPath}
            /\ files[MarkdownPath] = table_content

\* C11: a table text with headers and no row of their length, reportlab installed
C11_Witness ==
    /\ pc = "save_md"
    /\ reportlab
    /\ parse_markdown_table(table_content).headers # <<>>
    /\ parse_markdown_table(table_content).rows = <<>>
    /\ files[MarkdownPath] = table_content
    /\ MarkdownPath = <<"d", ".", "v", "1", "/", "b", "_", "r", "e", "f", "e", "r", "e", "n", "c", "e", "s", ".", "m", "d">>

\* the response holds one well-formed table, the rows in_rows under the standard
\* headers, between prose lines
WellFormedResponse ==
    /\ in_rows # <<>>
    /\ \A r \in 1..Len(in_rows) : Len(in_rows[r]) = Len(StdHeaders)
    /\ \E before \in ProseBefore, after \in ProseAfter :
          response = before \o TableText(StdHeaders, in_rows) \o after
StrippedRows(rows) ==
    [r \in 1..Len(rows) |-> [i \in 1..Len(rows[r]) |-> Strip(rows[r][i])]]

\* C12: for a response that holds one well-formed table between prose lines,
\* extract_table_from_response followed by parse_markdown_table returns the table's
\* header cells and every one of its data rows, in order, whether or not the
\* response ends with a newline.
C12_TableOfTheResponse ==
    WellFormedResponse =>
        /\ pc # "save_raw"
        /\ pc = "save_html" => headers = StdHeaders /\ data_rows = StrippedRows(in_rows)

\* the rows of a rendered file are in non-decreasing (theme, year) order
InKeyOrder(hs, rows) ==
    \A r \in 1..(Len(rows) - 1) : ~KeyLess(hs, rows[r + 1], rows[r])

\* C17: the rows that save_table_to_pdf and save_table_to_html render are sorted
\* and consolidated: under their final theme labels they are in non-decreasing
\* (theme, year) order and carry at most 6 distinct theme labels.
C17_RenderedSortedAndConsolidated ==
    \A path \in {OutputPath, HtmlPath} \cap DOMAIN files :
        LET t == files[path]
        IN  /\ InKeyOrder(t.headers, t.rows)
            /\ Cardinality(ThemesOf(t.rows, HeaderIndex(t.headers, ThemeHeader))) <= DefaultMaxThemes



\* C13: in one run of main, no two worker tasks ever write to the same output
\* path: the output files of each submitted document are distinct from those of
\* every other submitted document, whatever the command-line arguments.
C13_PrivateOutputPaths ==
    \A i, j \in DOMAIN tasks :
        i # j => tasks[i].written \cap tasks[j].written = {}

\* main printed exactly one status line for the i-th submitted document
ReportedOnce(i) == i \in DOMAIN tasks /\ Len(tasks[i].printed) = 1

\* C14: every submitted document eventually yields exactly one printed status
\* line, whatever its outcome; a failure of one document never prevents another
\* from being processed and reported; main reaches its final message.
C14_EveryDocumentReported ==
    /\ [](\A i \in DOMAIN tasks : Len(tasks[i].printed) <= 1)
    /\ [](pc = "collecting" =>
            <>[](pc = "done" /\ \A i \in DOMAIN tasks : ReportedOnce(i)))

\* C14: five documents for four workers, all reported once, among them a table
\* saved, a table-less response, a non-zero exit code and an exception
C14_Witness ==
    /\ pc = "done"
    /\ Len(tasks) > PoolSize
    /\ \A i \in DOMAIN tasks : Len(tasks[i].printed) = 1
    /\ \A line \in {"ok", "no_table", "nonzero", "error", "exception"} :
          \E i \in DOMAIN tasks : tasks[i].printed = <<line>>


\* the offsets of text at which the bare '(year)' pattern matches
BareYearOffsets ==
    {k \in 0..(Len(text) - 1) : MatchesAtCI(text, k, YearPattern(ref_parsed.year))}
\* the end of the author-anchored match at offset k of text, or -1
AuthorAnchoredEnd(k) ==
    LET first_author == Strip(Split(ref_parsed.authors, ",")[1])
    IN  IF Contains(Lower(ref_parsed.authors), <<" ", "e", "t", " ", "a", "l">>)
        THEN EtAlMatchEnd(text, k, first_author, ref_parsed.year)
        ELSE AuthorYearMatchEnd(text, k, first_author, ref_parsed.year)
\* the window of a match from offset from to offset to
WindowOf(from, to) ==
    Slice(text, Max(0, from - ContextRadius), Min(Len(text), to + ContextRadius))
\* the number of citations that come from the author-anchored pattern
AnchoredCount == Len(citations) - Cardinality(BareYearOffsets)

\* C21: with a year, the citations are one per match of the author-anchored pattern,
\* in ascending offset, then one per match of the bare '(year)' pattern, in
\* ascending offset, without merging: the '(year)' inside an author-anchored match
\* is counted again. Each offset is the match start and each context runs from
\* max(0, start - 200) to min(len(text), end + 200).
C21_CitationsOfBothPatterns ==
    (pc = "categorize" /\ ref_parsed.year # <<>>) =>
        LET n1 == AnchoredCount
            n == Len(citations)
            anchored == {citations[i].position : i \in 1..n1}
            hits == {k \in 0..(Len(text) - 1) : AuthorAnchoredEnd(k) # -1}
        IN  /\ n1 >= 0
            /\ \A i \in 1..(n - 1) : i # n1 => citations[i].position < citations[i + 1].position
            /\ {citations[i].position : i \in (n1 + 1)..n} = BareYearOffsets
            /\ \A i \in (n1 + 1)..n :
                  citations[i].context =
                      WindowOf(citations[i].position,
                               citations[i].position + Len(ref_parsed.year) + 2)
            /\ anchored \subseteq hits
            /\ \A k \in hits :
                  k \in anchored <=> ~\E q \in anchored : q < k /\ k < AuthorAnchoredEnd(q)
            /\ \A i \in 1..n1 :
                  /\ citations[i].context =
                        WindowOf(citations[i].position, AuthorAnchoredEnd(citations[i].position))
                  /\ AuthorAnchoredEnd(citations[i].position) - Len(ref_parsed.year) - 2
                        \in BareYearOffsets

\* C21: an occurrence matched by both patterns and a '(year)' matched by the bare
\* pattern alone, with windows cut 200 characters before and after the match
C21_Witness ==
    /\ pc = "categorize"
    /\ ref_parsed.year # <<>>
    /\ AnchoredCount >= 1
    /\ Cardinality(BareYearOffsets) > AnchoredCount
    /\ \E i \in 1..Len(citations) :
          /\ citations[i].position > ContextRadius
          /\ Len(citations[i].context) = 2 * ContextRadius + Len(ref_parsed.year) + 2


\* the labels of a sequence, each at its first occurrence
InsertionOrder(labels) ==
    LET First(i) == \A j \in 1..(i - 1) : labels[j] # labels[i]
        kept == SelectSeq([i \in 1..Len(labels) |-> i], First)
    IN  [i \in 1..Len(kept) |-> labels[kept[i]]]

\* C22: the usage description lists the distinct labels, comma-joined, in the order
\* in which each was first assigned while scanning the examined windows, and the
\* same text and reference always give the same description.
C22_DescriptionInInsertionOrder ==
    (pc = "categorize" /\ citations # <<>>) =>
        usage_desc = Join(InsertionOrder(usage_contexts), <<",", " ">>)


\* a line composed solely of pipe, dash, colon and whitespace characters
OnlyRuleChars(line) == \A i \in 1..Len(line) : line[i] \in {"|", "-", ":", " ", "\t"}
\* the lines of the table text that are not dropped
RemainingLines == LET Kept(l) == ~OnlyRuleChars(l) IN SelectSeq(in_rows, Kept)
\* no mis-encoded substring is left in a cell
WellEncoded(c) ==
    /\ ~Contains(c, <<"R", "Ã", "©", "f", "Ã", "©", "r", "e", "n", "c", "e">>)
    /\ ~Contains(c, <<"A", "r", "g", "u", "m", "e", "n", "t", "s", " ", "Ã", "©", "t", "a", "y", "Ã", "©", "s">>)
    /\ ~Contains(c, <<"T", "h", "Ã", "¨", "m", "e">>)
    /\ ~Contains(c, <<"A", "n", "n", "Ã", "©", "e">>)
\* the headers and the rows the claimed rule gives for the remaining lines
ClaimedHeaders ==
    IF RemainingLines = <<>> THEN <<>>
    ELSE LET cells == LineCells(RemainingLines[1])
         IN  [i \in 1..Len(cells) |-> FixCell(cells[i])]
ClaimedRows ==
    IF RemainingLines = <<>> THEN <<>>
    ELSE LET Fits(l) == Len(LineCells(l)) = Len(LineCells(RemainingLines[1]))
             kept == SelectSeq(Tail(RemainingLines), Fits)
         IN  [r \in 1..Len(kept) |->
                 LET cells == LineCells(kept[r])
                 IN  [i \in 1..Len(cells) |-> FixCell(cells[i])]]
\* the number of lines of the table text that are not blank
NonBlankLines ==
    LET NotBlank(l) == \E i \in 1..Len(l) : l[i] \notin {" ", "\t"}
    IN  Len(SelectSeq(in_rows, NotBlank))

\* C23: parse_markdown_table drops every line composed solely of pipe, dash, colon
\* and whitespace characters, takes the cells of the first remaining line as
\* headers and returns as rows, in order, the later remaining lines with as many
\* cells as the headers; the mis-encoded substrings are corrected in every header
\* and every returned cell.
C23_ParsedTable ==
    pc = "save_html" =>
        /\ headers = ClaimedHeaders
        /\ data_rows = ClaimedRows
        /\ \A i \in 1..Len(headers) : WellEncoded(headers[i])
        /\ \A r \in 1..Len(data_rows) : \A i \in 1..Len(data_rows[r]) :
              WellEncoded(data_rows[r][i])

\* C23, amended: the same for a table text of at least two non-blank lines; a text
\* of fewer non-blank lines gives no headers and no rows.
C23_ParsedTableAmended ==
    pc = "save_html" =>
        IF NonBlankLines < 2
        THEN headers = <<>> /\ data_rows = <<>>
        ELSE /\ headers = ClaimedHeaders
             /\ data_rows = ClaimedRows
             /\ \A i \in 1..Len(headers) : WellEncoded(headers[i])
             /\ \A r \in 1..Len(data_rows) : \A i \in 1..Len(data_rows[r]) :
                   WellEncoded(data_rows[r][i])

\* C23: a mis-encoded header, a separator that is dropped, a row of three cells
\* that is dropped, and a row of two cells whose mis-encoded cell is corrected
C23_Witness ==
    /\ pc = "save_html"
    /\ Len(in_rows) = 4
    /\ \E i \in 2..4 : OnlyRuleChars(in_rows[i]) /\ in_rows[i] # <<>>
    /\ \E i \in 2..4 : Len(LineCells(in_rows[i])) = 3
    /\ headers = << <<"R", "é", "f", "é", "r", "e", "n", "c", "e">>, <<"T", "h", "è", "m", "e">> >>
    /\ data_rows = << << <<"D", "o", "e">>,
                         <<"A", "n", "n", "é", "e", " ", "T", "h", "è", "m", "e">> >> >>


\* the offsets of the 4-digit runs of a cell whose value is between 1900 and 2100
YearRuns(cell) ==
    {k \in 0..(Len(cell) - 4) :
        /\ \A j \in 0..3 : At(cell, k + j) \in Digits
        /\ k = 0 \/ At(cell, k - 1) \notin Digits
        /\ k + 4 = Len(cell) \/ At(cell, k + 4) \notin Digits
        /\ DigitsValue(Slice(cell, k, k + 4)) \in MinYear..MaxYear}
\* the year the claimed rule gives for a row: the first such run, or 0
ClaimedYear(hs, row) ==
    LET yi == HeaderIndex(hs, YearHeader)
        cell == row[yi]
    IN  IF yi = 0 \/ yi > Len(row) \/ YearRuns(cell) = {} THEN 0
        ELSE DigitsValue(Slice(cell, MinOf(YearRuns(cell)), MinOf(YearRuns(cell)) + 4))

\* C24: for a year cell that holds a 4-digit run of value 1900..2100, alone, inside
\* other text or followed by a disambiguation letter as in '2019a', extract_year
\* returns that number; for any other cell it returns None and the sort key is 0.
C24_YearOfTheCell ==
    pc = "sorted" =>
        \A r \in 1..Len(in_rows) : SortYear(headers, in_rows[r]) = ClaimedYear(headers, in_rows[r])



\* C25: the sorted rows are the input rows rearranged: some one-to-one
\* assignment of output positions to input positions puts the rows in order of
\* theme string, then of year key (0, the key of a row without extractable
\* year, before every year), and two rows of equal theme and year key stand in
\* the order they had in the input.
Rearrangements(n) ==
    {p \in [1..n -> 1..n] : \A i, j \in 1..n : p[i] = p[j] => i = j}
InStableOrder(hs, rows, p, k, l) ==
    LET a == rows[p[k]]
        b == rows[p[l]]
    IN  \/ StrLess(SortTheme(hs, a), SortTheme(hs, b))
        \/ /\ SortTheme(hs, a) = SortTheme(hs, b)
           /\ \/ SortYear(hs, a) < SortYear(hs, b)
              \/ SortYear(hs, a) = SortYear(hs, b) /\ p[k] < p[l]
C25_StablePermutation ==
    pc = "sorted" =>
        /\ Len(data_rows) = Len(in_rows)
        /\ \E p \in Rearrangements(Len(in_rows)) :
              /\ \A k \in 1..Len(in_rows) : data_rows[k] = in_rows[p[k]]
              /\ \A k, l \in 1..Len(in_rows) :
                    k < l => InStableOrder(headers, in_rows, p, k, l)
C25_Witness ==
    /\ pc = "sorted"
    /\ data_rows # in_rows
    /\ \E k, l \in 1..Len(data_rows) :
          /\ k < l
          /\ data_rows[k] # data_rows[l]
          /\ SortTheme(headers, data_rows[k]) = SortTheme(headers, data_rows[l])
          /\ SortYear(headers, data_rows[k]) = SortYear(headers, data_rows[l])
    /\ \E k, l \in 1..Len(data_rows) :
          /\ k < l
          /\ SortTheme(headers, data_rows[k]) = SortTheme(headers, data_rows[l])
          /\ SortYear(headers, data_rows[k]) = 0
          /\ SortYear(headers, data_rows[l]) >= MinYear



\* C26: consolidate_themes returns the rows as they are when the headers have
\* no theme column or the rows have at most max_themes distinct themes.
\* Otherwise, with the themes put in order of decreasing row count and themes
\* of equal count in order of their first row, a row whose theme is among the
\* first max_themes keeps that theme and every other row that has a theme cell
\* gets the catch-all label; no other cell changes.
ThemeOrders(rows, ti) ==
    LET themes == ThemesOf(rows, ti)
        n == Cardinality(themes)
    IN  {ord \in [1..n -> themes] :
            \A i, j \in 1..n :
                i < j =>
                    \/ ThemeCount(rows, ti, ord[i]) > ThemeCount(rows, ti, ord[j])
                    \/ /\ ThemeCount(rows, ti, ord[i]) = ThemeCount(rows, ti, ord[j])
                       /\ FirstRowOf(rows, ti, ord[i]) < FirstRowOf(rows, ti, ord[j])}
KeptThemes(ord, max) == {ord[i] : i \in 1..max}
C26_KeptByCountThenFirstSeen ==
    LET ti == HeaderIndex(headers, ThemeHeader)
    IN  pc = "consolidated" =>
            IF ti = 0 \/ Cardinality(ThemesOf(in_rows, ti)) <= max_themes
            THEN data_rows = in_rows
            ELSE /\ Len(data_rows) = Len(in_rows)
                 /\ \E ord \in ThemeOrders(in_rows, ti) :
                       \A r \in 1..Len(in_rows) :
                           IF ti <= Len(in_rows[r])
                           THEN data_rows[r] =
                                  [in_rows[r] EXCEPT ![ti] =
                                     IF Strip(@) \in KeptThemes(ord, max_themes)
                                     THEN Strip(@) ELSE OtherTheme]
                           ELSE data_rows[r] = in_rows[r]
C26_Witness ==
    LET ti == HeaderIndex(headers, ThemeHeader)
    IN  /\ pc = "consolidated"
        /\ ti # 0
        /\ Cardinality(ThemesOf(in_rows, ti)) > max_themes
        /\ \E r, q \in 1..Len(in_rows) :
              /\ ti <= Len(in_rows[r]) /\ ti <= Len(in_rows[q])
              /\ r < q
              /\ Strip(in_rows[r][ti]) # Strip(in_rows[q][ti])
              /\ ThemeCount(in_rows, ti, Strip(in_rows[r][ti]))
                   = ThemeCount(in_rows, ti, Strip(in_rows[q][ti]))
              /\ Strip(data_rows[r][ti]) = Strip(in_rows[r][ti])
              /\ Strip(in_rows[q][ti]) # OtherTheme
              /\ data_rows[q][ti] = OtherTheme
C26_WitnessUnchanged ==
    LET ti == HeaderIndex(headers, ThemeHeader)
    IN  /\ pc = "consolidated"
        /\ ti # 0
        /\ Cardinality(ThemesOf(in_rows, ti)) = max_themes
        /\ data_rows = in_rows



\* C27: consolidating a consolidated table again changes no theme cell, and so
\* the HTML file of a document (sorted and consolidated twice) shows every row
\* with the theme label that the PDF file (sorted and consolidated once) shows
\* for it: each row, theme label included, occurs as often in one as in the other.
C27_SameLabelsInPdfAndHtml ==
    (OutputPath \in DOMAIN files /\ HtmlPath \in DOMAIN files) =>
        LET pdf == files[OutputPath]
            html == files[HtmlPath]
        IN  /\ consolidate_themes(pdf.headers, pdf.rows, DefaultMaxThemes) = pdf.rows
            /\ \A row \in Range(pdf.rows) \cup Range(html.rows) :
                  Occurrences(pdf.rows, row) = Occurrences(html.rows, row)



\* C28: an entry of the document that has a parsed year is cited at least once
\* in the same document, at the least by the '(year)' of its own line in the
\* bibliography; so the default description and the score 30 go only to entries
\* without year, and an entry with a year scores 50 or more.
OwnOccurrence(c) ==
    /\ c.position >= Find(text, BibMarker)
    /\ MatchesAtCI(text, c.position, YearPattern(ref_parsed.year))
C28_EntryWithYearIsCited ==
    /\ (pc \in {"categorize", "assemble"} /\ ref_parsed.year # <<>>) =>
          /\ Len(citations) >= 1
          /\ \E k \in 1..Len(citations) : OwnOccurrence(citations[k])
          /\ usage_desc # DefaultUsage
          /\ importance >= ScoreFew
    /\ \A k \in 1..Len(results) :
          /\ results[k].year # <<>> => results[k].importance >= ScoreFew
          /\ (results[k].usage = DefaultUsage \/ results[k].importance = ScoreNoCitation)
                => results[k].year = <<>>
C28_Witness ==
    /\ pc = "assemble"
    /\ ref_parsed.year # <<>>
    /\ Len(citations) >= 1
    /\ \A k \in 1..Len(citations) : OwnOccurrence(citations[k])
    /\ importance = ScoreFew
C28_WitnessNoYear ==
    \E k \in 1..Len(results) :
        /\ results[k].year = <<>>
        /\ results[k].usage = DefaultUsage
        /\ results[k].importance = ScoreNoCitation



\* read_markdown_files has run and found no markdown file
NoMarkdownFound ==
    /\ read_result # <<>>
    /\ Len(read_result) < 3 \/ read_result[3] = <<>>

\* C29: when read_markdown_files finds no usable markdown input, merge_references
\* returns None and raises nothing, and main then exits with status 1.
C29_NoInputReturnsNone ==
    (NoMarkdownFound /\ pc \notin {"merge_read", "merge_unpack"}) =>
        /\ raised = "none"
        /\ merge_result = None
        /\ pc = "exited" => exit_status = 1



\* the pages-per-block value main is to use for the second argument
ClaimedPagesPerBlock ==
    IF Len(argv) >= 2 /\ ParseInt(argv[2]).ok /\ ParseInt(argv[2]).value >= 1
    THEN ParseInt(argv[2]).value
    ELSE DefaultPagesPerChunk

\* C30: run with three arguments, main of split_pdf.py raises nothing and calls
\* split_pdf with the third argument as output_dir and with the pages-per-block
\* value of the second argument (20 when it is no integer or below 1); run with
\* one or two arguments, it calls split_pdf with output_dir None.
C30_ThirdArgumentIsOutputDir ==
    (pc \in {"split_call", "split_returned", "raised", "exited"} /\ argv # <<>>) =>
        /\ Len(argv) = 3 =>
              /\ raised = "none"
              /\ output_dir = argv[3]
              /\ pages_per_chunk = ClaimedPagesPerBlock
        /\ Len(argv) \in {1, 2} =>
              /\ raised = "none"
              /\ output_dir = None
              /\ pages_per_chunk = ClaimedPagesPerBlock

=============================================================================
